---- MODULE Spec2Model ----
(***************************************************************************)
(* pytokens: the TokenIterator of src/src/pytokens/__init__.py as a state  *)
(* machine.  The state is the source string, the iterator object `self`    *)
(* (a record with the fields of the TokenIterator dataclass), the list of  *)
(* tokens returned so far and the outcome of the last __next__ call.       *)
(* Characters are one-character strings; the control characters, the       *)
(* backslash and the quotes are written by name (LF, CR, BSL, DQ, ...).    *)
(* Indexes are 0-based as in the source: At(i) is source[i].               *)
(***************************************************************************)
EXTENDS Integers, Sequences, FiniteSets, TLC

VARIABLES source, self, out, result

vars == <<source, self, out, result>>

(***************************************************************************)
(* Characters                                                              *)
(***************************************************************************)
LF == "LF"
CR == "CR"
SP == "SP"
TAB == "TAB"
VT == "VT"
FF == "FF"
BSL == "BSL"
DQ == "DQ"
SQ == "SQ"
BQ == "BQ"

Digits == {"0", "1", "2", "3", "4", "5", "6", "7", "8", "9"}

OctDigits == {"0", "1", "2", "3", "4", "5", "6", "7"}

LowerLetters ==
    {"a", "b", "c", "d", "e", "f", "g", "h", "i", "j", "k", "l", "m",
     "n", "o", "p", "q", "r", "s", "t", "u", "v", "w", "x", "y", "z"}

UpperLetters ==
    {"A", "B", "C", "D", "E", "F", "G", "H", "I", "J", "K", "L", "M",
     "N", "O", "P", "Q", "R", "S", "T", "U", "V", "W", "X", "Y", "Z"}

HexDigits == Digits \cup {"a", "b", "c", "d", "e", "f", "A", "B", "C", "D", "E", "F"}

isdigit(c) == c \in Digits

\* str.isidentifier on a one-character string, and on a longer prefix
IdStart == LowerLetters \cup UpperLetters \cup {"_"}

IdContinue == IdStart \cup Digits

lower(c) ==
    CASE c = "B" -> "b"
      [] c = "R" -> "r"
      [] c = "F" -> "f"
      [] c = "U" -> "u"
      [] c = "T" -> "t"
      [] c = "N" -> "n"
      [] c = "E" -> "e"
      [] c = "J" -> "j"
      [] c = "X" -> "x"
      [] c = "O" -> "o"
      [] OTHER -> c

lower_str(str) == [i \in 1..Len(str) |-> lower(str[i])]

is_whitespace(char) == char = SP \/ char = TAB \/ char = VT \/ char = FF

(***************************************************************************)
(* Token types, tokens, exceptions                                         *)
(***************************************************************************)
TokenType ==
    [whitespace |-> 1, indent |-> 2, dedent |-> 3, newline |-> 4, nl |-> 5,
     comment |-> 6, _op_start |-> 7, semicolon |-> 8, lparen |-> 9,
     rparen |-> 10, lbracket |-> 11, rbracket |-> 12, lbrace |-> 13,
     rbrace |-> 14, colon |-> 15, op |-> 16, _op_end |-> 17,
     identifier |-> 18, number |-> 19, string |-> 20, fstring_start |-> 21,
     fstring_middle |-> 22, fstring_end |-> 23, endmarker |-> 24]

TokenNames ==
    {"whitespace", "indent", "dedent", "newline", "nl", "comment",
     "semicolon", "lparen", "rparen", "lbracket", "rbracket", "lbrace",
     "rbrace", "colon", "op", "identifier", "number", "string",
     "fstring_start", "fstring_middle", "fstring_end", "endmarker"}

\* TokenType.name, as the characters of each member's name
TokenTypeName ==
    [whitespace |-> <<"w", "h", "i", "t", "e", "s", "p", "a", "c", "e">>,
     indent |-> <<"i", "n", "d", "e", "n", "t">>,
     dedent |-> <<"d", "e", "d", "e", "n", "t">>,
     newline |-> <<"n", "e", "w", "l", "i", "n", "e">>,
     nl |-> <<"n", "l">>,
     comment |-> <<"c", "o", "m", "m", "e", "n", "t">>,
     _op_start |-> <<"_", "o", "p", "_", "s", "t", "a", "r", "t">>,
     semicolon |-> <<"s", "e", "m", "i", "c", "o", "l", "o", "n">>,
     lparen |-> <<"l", "p", "a", "r", "e", "n">>,
     rparen |-> <<"r", "p", "a", "r", "e", "n">>,
     lbracket |-> <<"l", "b", "r", "a", "c", "k", "e", "t">>,
     rbracket |-> <<"r", "b", "r", "a", "c", "k", "e", "t">>,
     lbrace |-> <<"l", "b", "r", "a", "c", "e">>,
     rbrace |-> <<"r", "b", "r", "a", "c", "e">>,
     colon |-> <<"c", "o", "l", "o", "n">>,
     op |-> <<"o", "p">>,
     _op_end |-> <<"_", "o", "p", "_", "e", "n", "d">>,
     identifier |-> <<"i", "d", "e", "n", "t", "i", "f", "i", "e", "r">>,
     number |-> <<"n", "u", "m", "b", "e", "r">>,
     string |-> <<"s", "t", "r", "i", "n", "g">>,
     fstring_start |-> <<"f", "s", "t", "r", "i", "n", "g", "_", "s", "t", "a", "r", "t">>,
     fstring_middle |-> <<"f", "s", "t", "r", "i", "n", "g", "_", "m", "i", "d", "d", "l", "e">>,
     fstring_end |-> <<"f", "s", "t", "r", "i", "n", "g", "_", "e", "n", "d">>,
     endmarker |-> <<"e", "n", "d", "m", "a", "r", "k", "e", "r">>]

\* str.upper() on one character
upper(c) ==
    CASE c = "a" -> "A"
      [] c = "b" -> "B"
      [] c = "c" -> "C"
      [] c = "d" -> "D"
      [] c = "e" -> "E"
      [] c = "f" -> "F"
      [] c = "g" -> "G"
      [] c = "h" -> "H"
      [] c = "i" -> "I"
      [] c = "j" -> "J"
      [] c = "k" -> "K"
      [] c = "l" -> "L"
      [] c = "m" -> "M"
      [] c = "n" -> "N"
      [] c = "o" -> "O"
      [] c = "p" -> "P"
      [] c = "q" -> "Q"
      [] c = "r" -> "R"
      [] c = "s" -> "S"
      [] c = "t" -> "T"
      [] c = "u" -> "U"
      [] c = "v" -> "V"
      [] c = "w" -> "W"
      [] c = "x" -> "X"
      [] c = "y" -> "Y"
      [] c = "z" -> "Z"
      [] OTHER -> c

upper_str(str) == [i \in 1..Len(str) |-> upper(str[i])]

\* is_operator() with the two markers inside the range
is_operator_inclusive(value) ==
    TokenType._op_start <= value /\ value <= TokenType._op_end

is_operator(value) == TokenType._op_start < value /\ value < TokenType._op_end

\* TokenType.to_python_token(), for the member called name
to_python_token(name) ==
    IF TokenTypeName[name] = <<"i", "d", "e", "n", "t", "i", "f", "i", "e", "r">>
    THEN <<"N", "A", "M", "E">>
    ELSE IF is_operator(TokenType[name]) THEN <<"O", "P">>
    ELSE upper_str(TokenTypeName[name])

\* prev_token = None, and the `ret` of a call that returned no token
NoToken ==
    [type |-> "None", start_index |-> 0, end_index |-> 0, start_line |-> 0,
     start_col |-> 0, end_line |-> 0, end_col |-> 0]

TypedFailures ==
    {"UnterminatedString", "UnexpectedEOF", "UnexpectedCharacterAfterBackslash",
     "UnexpectedCharacter", "InconsistentUseOfTabsAndSpaces",
     "DedentDoesNotMatchAnyOuterIndent", "Underflow"}

\* what Python raises for a failed assert and for source[i] out of range
UntypedFailures == {"AssertionError", "IndexError"}

Failures == TypedFailures \cup UntypedFailures

(***************************************************************************)
(* FStringState                                                            *)
(***************************************************************************)
not_fstring == 1
at_fstring_middle == 2
at_fstring_lbrace == 3
in_fstring_expr == 4
in_fstring_expr_modifier == 5
at_fstring_end == 6

(***************************************************************************)
(* Results of a method: the object after it, the token it returned (or     *)
(* NoToken) and the exception it raised (or "none").                       *)
(***************************************************************************)
Ok(s) == [self |-> s, ret |-> NoToken, exc |-> "none"]

Raise(s, e) == [self |-> s, ret |-> NoToken, exc |-> e]

Last(seq) == seq[Len(seq)]

Front(seq) == SubSeq(seq, 1, Len(seq) - 1)

Min(a, b) == IF a < b THEN a ELSE b

At(i) == source[i + 1]

\* source[i:j], clamped as a Python slice is
Slice(i, j) == SubSeq(source, i + 1, Min(j, Len(source)))

is_in_bounds(s) == s.current_index < Len(source)

peek(s) == At(s.current_index)

advance(s) ==
    [s EXCEPT !.current_index = @ + 1, !.byte_offset = @ + 1]

advance_by(s, count) ==
    [s EXCEPT !.current_index = @ + count, !.byte_offset = @ + count]

\* next_line() without self.byte_offset = 0
next_line_keeping_offset(s) ==
    [s EXCEPT !.line_number = @ + 1,
              !.all_whitespace_on_this_line = TRUE]

next_line(s) ==
    [s EXCEPT !.line_number = @ + 1,
              !.byte_offset = 0,
              !.all_whitespace_on_this_line = TRUE]

\* advance_check_newline stepping over LF without next_line()
advance_check_newline_uncounted(s) ==
    IF ~is_in_bounds(s) THEN Raise(s, "IndexError")
    ELSE Ok(advance(s))

\* raises IndexError when the cursor is out of range
advance_check_newline(s) ==
    IF ~is_in_bounds(s) THEN Raise(s, "IndexError")
    ELSE IF peek(s) = LF
         THEN Ok(next_line([s EXCEPT !.current_index = @ + 1]))
         ELSE Ok(advance(s))

match(s, options, ignore_case) ==
    \E option \in options :
        /\ s.current_index + Len(option) <= Len(source)
        /\ LET snippet == Slice(s.current_index, s.current_index + Len(option))
           IN IF ignore_case
              THEN lower_str(option) = lower_str(snippet)
              ELSE option = snippet

\* make_token() without self.prev_index = self.current_index
make_token_stale_start(s, tok_type) ==
    LET token == [type |-> tok_type,
                  start_index |-> s.prev_index,
                  end_index |-> s.current_index,
                  start_line |-> s.prev_line_number,
                  start_col |-> s.prev_byte_offset,
                  end_line |-> s.line_number,
                  end_col |-> s.byte_offset]
        s1 == IF tok_type = "newline" \/ tok_type = "nl" THEN next_line(s)
              ELSE IF tok_type = "whitespace" \/ tok_type = "comment" THEN s
              ELSE [s EXCEPT !.all_whitespace_on_this_line = FALSE]
    IN [self |-> [s1 EXCEPT !.prev_token = token,
                            !.prev_line_number = s1.line_number,
                            !.prev_byte_offset = s1.byte_offset],
        ret |-> token,
        exc |-> "none"]

make_token(s, tok_type) ==
    LET token == [type |-> tok_type,
                  start_index |-> s.prev_index,
                  end_index |-> s.current_index,
                  start_line |-> s.prev_line_number,
                  start_col |-> s.prev_byte_offset,
                  end_line |-> s.line_number,
                  end_col |-> s.byte_offset]
        s1 == IF tok_type = "newline" \/ tok_type = "nl" THEN next_line(s)
              ELSE IF tok_type = "whitespace" \/ tok_type = "comment" THEN s
              ELSE [s EXCEPT !.all_whitespace_on_this_line = FALSE]
    IN [self |-> [s1 EXCEPT !.prev_token = token,
                            !.prev_index = s1.current_index,
                            !.prev_line_number = s1.line_number,
                            !.prev_byte_offset = s1.byte_offset],
        ret |-> token,
        exc |-> "none"]

\* make_token after a scan that may have raised
mk(r, tok_type) == IF r.exc # "none" THEN r ELSE make_token(r.self, tok_type)

\* push_fstring_quote without saving the active quote on the stack
push_fstring_quote_unsaved(s, quote) == [s EXCEPT !.fstring_quote = quote]

push_fstring_quote(s, quote) ==
    [s EXCEPT !.fstring_quote_stack =
                  IF s.fstring_quote # <<>> THEN Append(@, s.fstring_quote) ELSE @,
              !.fstring_quote = quote]

pop_fstring_quote(s) ==
    IF s.fstring_quote = <<>> THEN Raise(s, "Underflow")
    ELSE Ok([s EXCEPT !.fstring_quote =
                          IF Len(s.fstring_quote_stack) = 0 THEN <<>>
                          ELSE Last(s.fstring_quote_stack),
                      !.fstring_quote_stack =
                          IF Len(@) = 0 THEN @ ELSE Front(@)])

\* newline() without in_brackets in the choice of the token type
newline_ignoring_brackets(s) ==
    LET s1 == IF is_in_bounds(s) /\ peek(s) = CR THEN advance(s) ELSE s
        s2 == advance(s1)
        token_type == IF \/ s2.fstring_state.state = in_fstring_expr
                         \/ s2.all_whitespace_on_this_line
                      THEN "nl" ELSE "newline"
    IN make_token(s2, token_type)

newline(s) ==
    LET s1 == IF is_in_bounds(s) /\ peek(s) = CR THEN advance(s) ELSE s
        s2 == advance(s1)
        in_brackets == s2.bracket_level > 0
        token_type == IF \/ in_brackets
                         \/ s2.fstring_state.state = in_fstring_expr
                         \/ s2.all_whitespace_on_this_line
                      THEN "nl" ELSE "newline"
    IN make_token(s2, token_type)

\* endmarker() without the DEDENTs for what is left on indent_stack
endmarker_without_dedents(s) == make_token(s, "endmarker")

endmarker(s) ==
    IF Len(s.indent_stack) > 0
    THEN make_token([s EXCEPT !.indent_stack = Front(@)], "dedent")
    ELSE make_token(s, "endmarker")

(***************************************************************************)
(* Numbers                                                                 *)
(***************************************************************************)
\* while is_in_bounds() and (isdigit() or == "_"): advance()
RECURSIVE decimal_int_part(_)
decimal_int_part(s) ==
    IF is_in_bounds(s) /\ (isdigit(peek(s)) \/ peek(s) = "_")
    THEN decimal_int_part(advance(s))
    ELSE s

\* while is_in_bounds() and (isdigit() or (== "_" and source[i - 1].isdigit()))
RECURSIVE decimal_fraction(_)
decimal_fraction(s) ==
    IF is_in_bounds(s)
       /\ (\/ isdigit(peek(s))
           \/ (peek(s) = "_" /\ isdigit(At(s.current_index - 1))))
    THEN decimal_fraction(advance(s))
    ELSE s

\* while is_in_bounds() and (isdigit() or ((dbd or source[i - 1].isdigit()) and == "_"))
RECURSIVE decimal_exponent(_, _)
decimal_exponent(s, digit_before_decimal) ==
    IF is_in_bounds(s)
       /\ (\/ isdigit(peek(s))
           \/ ((digit_before_decimal \/ isdigit(At(s.current_index - 1)))
               /\ peek(s) = "_"))
    THEN decimal_exponent(advance(s), digit_before_decimal)
    ELSE s

decimal(s) ==
    LET digit_before_decimal == isdigit(peek(s))
        s1 == IF digit_before_decimal THEN advance(s) ELSE s
        s2 == decimal_int_part(s1)
        s3 == IF is_in_bounds(s2) /\ peek(s2) = "." THEN advance(s2) ELSE s2
        s4 == decimal_fraction(s3)
        i == s4.current_index
        has_exponent ==
            /\ i + 1 < Len(source)
            /\ (digit_before_decimal \/ isdigit(At(i - 1)))
            /\ (At(i) = "e" \/ At(i) = "E")
            /\ (\/ isdigit(At(i + 1))
                \/ (/\ i + 2 < Len(source)
                    /\ (At(i + 1) = "+" \/ At(i + 1) = "-")
                    /\ isdigit(At(i + 2))))
        s5 == IF has_exponent THEN advance(advance(s4)) ELSE s4
        s6 == decimal_exponent(s5, digit_before_decimal)
        s7 == IF /\ is_in_bounds(s6)
                 /\ (digit_before_decimal \/ isdigit(At(s6.current_index - 1)))
                 /\ (peek(s6) = "j" \/ peek(s6) = "J")
              THEN advance(s6) ELSE s6
    IN IF /\ s7.current_index - s7.prev_index = 1
          /\ At(s7.current_index - 1) = "."
       THEN IF /\ s7.current_index + 2 <= Len(source)
               /\ Slice(s7.current_index, s7.current_index + 2) = <<".", ".">>
            THEN make_token(advance(advance(s7)), "op")
            ELSE make_token(s7, "op")
       ELSE make_token(s7, "number")

\* while is_in_bounds() and source[i] == "0" or source[i] == "1": advance()
\* (`and` binds tighter than `or`: at the end of the source the right operand
\* reads source[len] and raises IndexError)
RECURSIVE binary_digits(_)
binary_digits(s) ==
    IF is_in_bounds(s) /\ peek(s) = "0" THEN binary_digits(advance(s))
    ELSE IF ~is_in_bounds(s) THEN Raise(s, "IndexError")
    ELSE IF peek(s) = "1" THEN binary_digits(advance(s))
    ELSE Ok(s)

\* the `e` / `E`, optional `-` tail shared by binary, octal and hexadecimal
exponent_tail(s) ==
    IF is_in_bounds(s) /\ (peek(s) = "e" \/ peek(s) = "E")
    THEN LET s1 == advance(s)
         IN IF is_in_bounds(s1) /\ peek(s1) = "-" THEN advance(s1) ELSE s1
    ELSE s

binary(s) ==
    LET r1 == binary_digits(advance(advance(s)))
    IN IF r1.exc # "none" THEN r1
       ELSE mk(binary_digits(exponent_tail(r1.self)), "number")

RECURSIVE octal_digits(_)
octal_digits(s) ==
    IF is_in_bounds(s) /\ peek(s) \in OctDigits
    THEN octal_digits(advance(s))
    ELSE s

octal(s) ==
    make_token(octal_digits(exponent_tail(octal_digits(advance(advance(s))))),
               "number")

RECURSIVE hexadecimal_digits(_)
hexadecimal_digits(s) ==
    IF is_in_bounds(s) /\ peek(s) \in HexDigits
    THEN hexadecimal_digits(advance(s))
    ELSE s

hexadecimal(s) ==
    make_token(
        hexadecimal_digits(exponent_tail(hexadecimal_digits(advance(advance(s))))),
        "number")

(***************************************************************************)
(* Strings and f-strings                                                   *)
(***************************************************************************)
is_quote(c) == c = DQ \/ c = SQ

\* [index |-> the quote's index, exc |-> "none"], or the exception
find_opening_quote(s) ==
    LET i == s.current_index
        n == Len(source)
    IN IF i >= n THEN [index |-> 0, exc |-> "IndexError"]
       ELSE IF is_quote(At(i)) THEN [index |-> i, exc |-> "none"]
       ELSE IF i + 1 >= n THEN [index |-> 0, exc |-> "IndexError"]
       ELSE IF is_quote(At(i + 1)) THEN [index |-> i + 1, exc |-> "none"]
       ELSE IF i + 2 >= n THEN [index |-> 0, exc |-> "IndexError"]
       ELSE IF is_quote(At(i + 2)) THEN [index |-> i + 2, exc |-> "none"]
       ELSE [index |-> 0, exc |-> "AssertionError"]

\* [prefix, quote, exc]
string_prefix_and_quotes(s) ==
    LET q == find_opening_quote(s)
    IN IF q.exc # "none" THEN [prefix |-> <<>>, quote |-> <<>>, exc |-> q.exc]
       ELSE LET quote_index == q.index
                quote_char == At(quote_index)
            IN [prefix |-> Slice(s.current_index, quote_index),
                quote |-> IF /\ quote_index + 3 <= Len(source)
                             /\ At(quote_index + 1) = quote_char
                             /\ At(quote_index + 2) = quote_char
                          THEN Slice(quote_index, quote_index + 3)
                          ELSE Slice(quote_index, quote_index + 1),
                exc |-> "none"]

\* FStringState methods, on the iterator's fstring_state field
enter_fstring(s) ==
    [s EXCEPT !.fstring_state.stack = Append(@, s.fstring_state.state),
              !.fstring_state.state = at_fstring_middle]

leave_fstring(s) ==
    IF s.fstring_state.state # at_fstring_end THEN Raise(s, "AssertionError")
    ELSE IF Len(s.fstring_state.stack) = 0 THEN Raise(s, "IndexError")
    ELSE Ok([s EXCEPT !.fstring_state.state = Last(s.fstring_state.stack),
                      !.fstring_state.stack = Front(@)])

consume_fstring_middle_for_lbrace(s) ==
    [s EXCEPT !.fstring_state.stack =
                  IF s.fstring_state.state = in_fstring_expr_modifier
                  THEN Append(@, s.fstring_state.state) ELSE @,
              !.fstring_state.state = at_fstring_lbrace]

consume_fstring_middle_for_end(s) ==
    [s EXCEPT !.fstring_state.state = at_fstring_end]

consume_lbrace(s) == [s EXCEPT !.fstring_state.state = in_fstring_expr]

consume_rbrace(s) ==
    IF ~(\/ s.fstring_state.state = in_fstring_expr
         \/ s.fstring_state.state = in_fstring_expr_modifier)
    THEN Raise(s, "AssertionError")
    ELSE IF /\ Len(s.fstring_state.stack) > 0
            /\ Last(s.fstring_state.stack) = in_fstring_expr_modifier
         THEN Ok([s EXCEPT !.fstring_state.state = Last(s.fstring_state.stack),
                           !.fstring_state.stack = Front(@)])
         ELSE Ok([s EXCEPT !.fstring_state.state = at_fstring_middle])

RECURSIVE fstring(_)
RECURSIVE fstring_middle(_, _)
RECURSIVE fstring_modifier(_, _)

\* the loop of the at_fstring_middle branch
fstring_middle(s, start_index) ==
    IF ~is_in_bounds(s) THEN Raise(s, "UnexpectedEOF")
    ELSE
    LET char == peek(s)
        is_single_quote == Len(s.fstring_quote) = 1
    IN IF char = LF /\ is_single_quote THEN Raise(s, "UnterminatedString")
       ELSE IF char = BSL
       THEN LET s1 == advance(s)
                s2 == IF /\ s1.current_index + 1 < Len(source)
                         /\ peek(s1) = "N"
                         /\ At(s1.current_index + 1) = "{"
                      THEN advance(advance(s1)) ELSE s1
                r3 == IF is_in_bounds(s2) /\ ~(peek(s2) = "{" \/ peek(s2) = "}")
                      THEN advance_check_newline(s2) ELSE Ok(s2)
            IN fstring_middle(r3.self, start_index)
       ELSE IF char = "{"
       THEN IF ~(s.current_index + 1 < Len(source))
            THEN Raise(s, "AssertionError")
            ELSE IF At(s.current_index + 1) = "{"
            THEN fstring_middle(advance(advance(s)), start_index)
            ELSE LET s1 == consume_fstring_middle_for_lbrace(s)
                 IN IF s1.current_index = start_index THEN fstring(s1)
                    ELSE make_token(s1, "fstring_middle")
       ELSE IF match(s, {s.fstring_quote}, FALSE)
       THEN LET s1 == consume_fstring_middle_for_end(s)
            IN IF s1.current_index = start_index THEN fstring(s1)
               ELSE make_token(s1, "fstring_middle")
       ELSE fstring_middle(advance_check_newline(s).self, start_index)

\* the loop of the in_fstring_expr_modifier branch
fstring_modifier(s, start_index) ==
    IF ~is_in_bounds(s) THEN Raise(s, "UnexpectedEOF")
    ELSE
    LET char == peek(s)
    IN IF s.fstring_quote = <<>> THEN Raise(s, "AssertionError")
       ELSE IF (char = LF \/ char = "{") /\ Len(s.fstring_quote) = 1
       THEN LET s1 == IF char = "{" THEN consume_fstring_middle_for_lbrace(s)
                      ELSE [s EXCEPT !.fstring_state.state = in_fstring_expr]
            IN IF s1.current_index = start_index THEN fstring(s1)
               ELSE make_token(s1, "fstring_middle")
       ELSE IF char = "}"
       THEN make_token([s EXCEPT !.fstring_state.state = in_fstring_expr],
                       "fstring_middle")
       ELSE fstring_modifier(advance_check_newline(s).self, start_index)

fstring(s) ==
    IF s.fstring_state.state \in {not_fstring, in_fstring_expr}
    THEN LET pq == string_prefix_and_quotes(s)
         IN IF pq.exc # "none" THEN Raise(s, pq.exc)
            ELSE make_token(
                     enter_fstring(
                         advance_by(push_fstring_quote(s, pq.quote),
                                    Len(pq.prefix) + Len(pq.quote))),
                     "fstring_start")
    ELSE IF s.fstring_state.state = at_fstring_middle
    THEN IF s.fstring_quote = <<>> THEN Raise(s, "AssertionError")
         ELSE fstring_middle(s, s.current_index)
    ELSE IF s.fstring_state.state = at_fstring_lbrace
    THEN make_token(
             consume_lbrace([advance(s) EXCEPT
                 !.bracket_level_stack = Append(@, s.bracket_level),
                 !.bracket_level = 0]),
             "lbrace")
    ELSE IF s.fstring_state.state = at_fstring_end
    THEN IF s.fstring_quote = <<>> THEN Raise(s, "AssertionError")
         ELSE LET r1 == pop_fstring_quote(advance_by(s, Len(s.fstring_quote)))
                  r2 == IF r1.exc # "none" THEN r1 ELSE leave_fstring(r1.self)
              IN mk(r2, "fstring_end")
    ELSE IF s.fstring_state.state = in_fstring_expr_modifier
    THEN fstring_modifier(s, s.current_index)
    ELSE Raise(s, "AssertionError")

\* the loop of string() without the escape branch: a backslash is a
\* character like any other
RECURSIVE string_body_without_escapes(_, _)
string_body_without_escapes(s, quote) ==
    IF ~is_in_bounds(s) THEN Raise(s, "UnexpectedEOF")
    ELSE
    LET char == peek(s)
        is_single_quote == Len(quote) = 1
    IN IF char = LF /\ is_single_quote THEN Raise(s, "UnterminatedString")
       ELSE IF match(s, {quote}, FALSE)
       THEN make_token(advance_by(s, Len(quote)), "string")
       ELSE string_body_without_escapes(advance_check_newline(s).self, quote)

\* the scanning loop of string()
RECURSIVE string_body(_, _)
string_body(s, quote) ==
    IF ~is_in_bounds(s) THEN Raise(s, "UnexpectedEOF")
    ELSE
    LET char == peek(s)
        is_single_quote == Len(quote) = 1
    IN IF char = LF /\ is_single_quote THEN Raise(s, "UnterminatedString")
       ELSE IF char = BSL
       THEN LET r1 == advance_check_newline(advance(s))
            IN IF r1.exc # "none" THEN r1 ELSE string_body(r1.self, quote)
       ELSE IF match(s, {quote}, FALSE)
       THEN make_token(advance_by(s, Len(quote)), "string")
       ELSE string_body(advance_check_newline(s).self, quote)

string(s) ==
    LET pq == string_prefix_and_quotes(s)
    IN IF pq.exc # "none" THEN Raise(s, pq.exc)
       ELSE IF \E i \in 1..Len(pq.prefix) : pq.prefix[i] = "f" \/ pq.prefix[i] = "F"
       THEN fstring(s)
       ELSE string_body(advance_by(s, Len(pq.prefix) + Len(pq.quote)), pq.quote)

(***************************************************************************)
(* Indentation                                                             *)
(***************************************************************************)
\* while is_in_bounds() and is_whitespace(source[i]): advance()
RECURSIVE skip_whitespace(_)
skip_whitespace(s) ==
    IF is_in_bounds(s) /\ is_whitespace(peek(s))
    THEN skip_whitespace(advance(s))
    ELSE s

\* a in b, for Python strings
is_substring(a, b) ==
    \E k \in 0..(Len(b) - Len(a)) : SubSeq(b, k + 1, k + Len(a)) = a

\* the dedent loop without self.dedent_counter += 1
RECURSIVE indent_pop_uncounted(_, _)
indent_pop_uncounted(s, new_indent) ==
    IF Len(s.indent_stack) = 0 THEN Ok(s)
    ELSE LET top_indent == Last(s.indent_stack)
         IN IF Len(top_indent) < Len(new_indent)
            THEN Raise(s, "DedentDoesNotMatchAnyOuterIndent")
            ELSE IF Len(top_indent) = Len(new_indent) THEN Ok(s)
            ELSE indent_pop_uncounted([s EXCEPT !.indent_stack = Front(@)],
                                      new_indent)

\* the dedent branch of indent() popping one level: an if for the while
indent_pop_one(s, new_indent) ==
    IF Len(s.indent_stack) = 0 THEN Ok(s)
    ELSE LET top_indent == Last(s.indent_stack)
         IN IF Len(top_indent) < Len(new_indent)
            THEN Raise(s, "DedentDoesNotMatchAnyOuterIndent")
            ELSE IF Len(top_indent) = Len(new_indent) THEN Ok(s)
            ELSE Ok([s EXCEPT !.indent_stack = Front(@),
                              !.dedent_counter = @ + 1])

\* the while loop of the dedent branch of indent()
RECURSIVE indent_pop(_, _)
indent_pop(s, new_indent) ==
    IF Len(s.indent_stack) = 0 THEN Ok(s)
    ELSE LET top_indent == Last(s.indent_stack)
         IN IF Len(top_indent) < Len(new_indent)
            THEN Raise(s, "DedentDoesNotMatchAnyOuterIndent")
            ELSE IF Len(top_indent) = Len(new_indent) THEN Ok(s)
            ELSE indent_pop([s EXCEPT !.indent_stack = Front(@),
                                      !.dedent_counter = @ + 1],
                            new_indent)

\* indent() without the test that an indentation as long as the top equals it
indent_same_length_unchecked(s) ==
    LET s1 == skip_whitespace(s)
        run == Slice(s.current_index, s1.current_index)
        saw_whitespace == Len(run) > 0
        saw_tab_or_space == \E i \in 1..Len(run) : run[i] = SP \/ run[i] = TAB
        start_index == IF saw_whitespace /\ ~saw_tab_or_space
                       THEN s1.current_index ELSE s.current_index
    IN IF ~is_in_bounds(s1)
       THEN IF s1.current_index = s.current_index THEN Raise(s1, "NotAnIndent")
            ELSE make_token(s1, "whitespace")
       ELSE IF peek(s1) = "#" \/ peek(s1) = BSL \/ peek(s1) = CR \/ peek(s1) = LF
       THEN make_token(s1, "whitespace")
       ELSE
       LET new_indent == Slice(start_index, s1.current_index)
           current_indent == IF Len(s1.indent_stack) = 0 THEN <<>>
                             ELSE Last(s1.indent_stack)
       IN IF Len(new_indent) = Len(current_indent)
          THEN IF Len(new_indent) = 0 THEN Raise(s1, "NotAnIndent")
               ELSE make_token(s1, "whitespace")
          ELSE IF Len(new_indent) > Len(current_indent)
          THEN IF Len(current_indent) > 0 /\ ~is_substring(current_indent, new_indent)
               THEN Raise(s1, "InconsistentUseOfTabsAndSpaces")
               ELSE make_token([s1 EXCEPT !.indent_stack = Append(@, new_indent)],
                               "indent")
          ELSE mk(indent_pop(s1, new_indent), "whitespace")

\* indent() without the test for a line that has no code on it
indent_on_blank_lines(s) ==
    LET s1 == skip_whitespace(s)
        run == Slice(s.current_index, s1.current_index)
        saw_whitespace == Len(run) > 0
        saw_tab_or_space == \E i \in 1..Len(run) : run[i] = SP \/ run[i] = TAB
        start_index == IF saw_whitespace /\ ~saw_tab_or_space
                       THEN s1.current_index ELSE s.current_index
    IN IF ~is_in_bounds(s1)
       THEN IF s1.current_index = s.current_index THEN Raise(s1, "NotAnIndent")
            ELSE make_token(s1, "whitespace")
       ELSE
       LET new_indent == Slice(start_index, s1.current_index)
           current_indent == IF Len(s1.indent_stack) = 0 THEN <<>>
                             ELSE Last(s1.indent_stack)
       IN IF Len(new_indent) = Len(current_indent)
          THEN IF Len(new_indent) = 0 THEN Raise(s1, "NotAnIndent")
               ELSE IF new_indent # current_indent
               THEN Raise(s1, "InconsistentUseOfTabsAndSpaces")
               ELSE make_token(s1, "whitespace")
          ELSE IF Len(new_indent) > Len(current_indent)
          THEN IF Len(current_indent) > 0 /\ ~is_substring(current_indent, new_indent)
               THEN Raise(s1, "InconsistentUseOfTabsAndSpaces")
               ELSE make_token([s1 EXCEPT !.indent_stack = Append(@, new_indent)],
                               "indent")
          ELSE mk(indent_pop(s1, new_indent), "whitespace")

\* indent(): the token of a line's indentation, or NotAnIndent
indent(s) ==
    LET s1 == skip_whitespace(s)
        run == Slice(s.current_index, s1.current_index)
        saw_whitespace == Len(run) > 0
        saw_tab_or_space == \E i \in 1..Len(run) : run[i] = SP \/ run[i] = TAB
        start_index == IF saw_whitespace /\ ~saw_tab_or_space
                       THEN s1.current_index ELSE s.current_index
    IN IF ~is_in_bounds(s1)
       THEN IF s1.current_index = s.current_index THEN Raise(s1, "NotAnIndent")
            ELSE make_token(s1, "whitespace")
       ELSE IF peek(s1) = "#" \/ peek(s1) = BSL \/ peek(s1) = CR \/ peek(s1) = LF
       THEN make_token(s1, "whitespace")
       ELSE
       LET new_indent == Slice(start_index, s1.current_index)
           current_indent == IF Len(s1.indent_stack) = 0 THEN <<>>
                             ELSE Last(s1.indent_stack)
       IN IF Len(new_indent) = Len(current_indent)
          THEN IF Len(new_indent) = 0 THEN Raise(s1, "NotAnIndent")
               ELSE IF new_indent # current_indent
               THEN Raise(s1, "InconsistentUseOfTabsAndSpaces")
               ELSE make_token(s1, "whitespace")
          ELSE IF Len(new_indent) > Len(current_indent)
          THEN IF Len(current_indent) > 0 /\ ~is_substring(current_indent, new_indent)
               THEN Raise(s1, "InconsistentUseOfTabsAndSpaces")
               ELSE make_token([s1 EXCEPT !.indent_stack = Append(@, new_indent)],
                               "indent")
          ELSE mk(indent_pop(s1, new_indent), "whitespace")

\* is_newline(): [is |-> the answer, self |-> the iterator after the call]
is_newline(s) ==
    IF peek(s) = LF THEN [is |-> TRUE, self |-> s]
    ELSE IF /\ peek(s) = CR
            /\ s.current_index + 1 < Len(source)
            /\ At(s.current_index + 1) = LF
         THEN [is |-> TRUE, self |-> advance(s)]
         ELSE [is |-> FALSE, self |-> s]

\* the length name() finds: the longest prefix of source[i:] that isidentifier()
RECURSIVE identifier_length(_)
identifier_length(i) ==
    IF i < Len(source) /\ At(i) \in IdContinue
    THEN 1 + identifier_length(i + 1)
    ELSE 0

name(s) ==
    IF peek(s) \notin IdStart THEN Raise(s, "UnexpectedCharacter")
    ELSE make_token(advance_by(s, 1 + identifier_length(s.current_index + 1)),
                    "identifier")

(***************************************************************************)
(* __next__                                                                *)
(***************************************************************************)
\* self.peek() after a scan: the assert of peek() fails at the end of the source
\* if self.peek() == char: self.advance()
optional(r, char) ==
    IF r.exc # "none" THEN r
    ELSE IF ~is_in_bounds(r.self) THEN Raise(r.self, "AssertionError")
    ELSE IF peek(r.self) = char THEN Ok(advance(r.self))
    ELSE r

\* the loop of the backslash-newline branch:
\* [self, found_whitespace]
RECURSIVE continuation(_, _)
continuation(s, found_whitespace) ==
    IF ~is_in_bounds(s) THEN [self |-> s, found_whitespace |-> found_whitespace]
    ELSE
    LET char == peek(s)
    IN IF is_whitespace(char) THEN continuation(advance(s), TRUE)
       ELSE IF \/ char = LF
               \/ (/\ char = CR
                   /\ s.current_index + 1 < Len(source)
                   /\ At(s.current_index + 1) = LF)
       THEN LET s1 == advance(IF char = CR THEN advance(s) ELSE s)
            IN IF s1.all_whitespace_on_this_line
               THEN [self |-> next_line(s1), found_whitespace |-> TRUE]
               ELSE continuation(
                        [next_line(s1) EXCEPT !.all_whitespace_on_this_line = FALSE],
                        TRUE)
       ELSE [self |-> s, found_whitespace |-> found_whitespace]

\* the backslash branch without the found_whitespace test
backslash_unchecked(s) ==
    LET s1 == advance(s)
    IN IF ~is_in_bounds(s1) THEN Raise(s1, "UnexpectedEOF")
       ELSE make_token(continuation(s1, FALSE).self, "whitespace")

backslash(s) ==
    LET s1 == advance(s)
    IN IF ~is_in_bounds(s1) THEN Raise(s1, "UnexpectedEOF")
       ELSE LET c == continuation(s1, FALSE)
            IN IF ~c.found_whitespace
               THEN Raise(c.self, "UnexpectedCharacterAfterBackslash")
               ELSE make_token(c.self, "whitespace")

\* the bare-CR branch consuming the CR alone
carriage_return_alone(s) ==
    LET s1 == advance(s)
    IN IF is_in_bounds(s1)
       THEN IF peek(s1) = LF THEN Raise(s1, "AssertionError")
            ELSE make_token(s1, "op")
       ELSE newline(s1)

\* CR on its own without a LF following
carriage_return(s) ==
    LET s1 == advance(s)
    IN IF is_in_bounds(s1)
       THEN IF peek(s1) = LF THEN Raise(s1, "AssertionError")
            ELSE make_token(advance(s1), "op")
       ELSE newline(s1)

\* while self.is_in_bounds() and self.peek() != "\n" and self.peek() != "\r"
RECURSIVE comment(_)
comment(s) ==
    IF is_in_bounds(s) /\ peek(s) # LF /\ peek(s) # CR
    THEN comment(advance(s))
    ELSE s

\* the branch that empties the dedent counter without self.dedent_counter -= 1
dedent_uncounted(s) == make_token(s, "dedent")

\* self.dedent_counter -= 1; return self.make_token(TokenType.dedent)
dedent(s) == make_token([s EXCEPT !.dedent_counter = @ - 1], "dedent")

\* self.bracket_level -= 1 without the clamp at 0
decrement_unclamped(n) == n - 1

\* self.bracket_level -= 1; if self.bracket_level < 0: self.bracket_level = 0
decrement(n) == IF n - 1 < 0 THEN 0 ELSE n - 1

close_bracket(s, tok_type) ==
    make_token([advance(s) EXCEPT !.bracket_level = decrement(@)], tok_type)

open_bracket(s, tok_type) ==
    make_token([advance(s) EXCEPT !.bracket_level = @ + 1], tok_type)

\* the closing brace of a hole popping bracket_level_stack without
\* restoring bracket_level from it
rbrace_without_restore(s) ==
    LET s1 == advance(s)
    IN IF s1.bracket_level = 0 /\ s1.fstring_state.state = in_fstring_expr
       THEN LET r == consume_rbrace(s1)
            IN IF r.exc # "none" THEN r
               ELSE IF Len(r.self.bracket_level_stack) = 0
               THEN Raise(r.self, "IndexError")
               ELSE make_token(
                        [r.self EXCEPT !.bracket_level_stack = Front(@)],
                        "rbrace")
       ELSE make_token([s1 EXCEPT !.bracket_level = decrement(@)], "rbrace")

\* the branch of __next__ for a closing brace
rbrace(s) ==
    LET s1 == advance(s)
    IN IF s1.bracket_level = 0 /\ s1.fstring_state.state = in_fstring_expr
       THEN LET r == consume_rbrace(s1)
            IN IF r.exc # "none" THEN r
               ELSE IF Len(r.self.bracket_level_stack) = 0
               THEN Raise(r.self, "IndexError")
               ELSE make_token(
                        [r.self EXCEPT
                            !.bracket_level = Last(r.self.bracket_level_stack),
                            !.bracket_level_stack = Front(@)],
                        "rbrace")
       ELSE make_token([s1 EXCEPT !.bracket_level = decrement(@)], "rbrace")

\* the colon branch returning the kind colon that TokenType declares
colon_as_colon(s) ==
    LET s1 == advance(s)
    IN IF s1.bracket_level = 0 /\ s1.fstring_state.state = in_fstring_expr
       THEN make_token(
                [s1 EXCEPT !.fstring_state.state = in_fstring_expr_modifier],
                "colon")
       ELSE mk(optional(Ok(s1), "="), "colon")

\* the branch of __next__ for a colon
colon(s) ==
    LET s1 == advance(s)
    IN IF s1.bracket_level = 0 /\ s1.fstring_state.state = in_fstring_expr
       THEN make_token(
                [s1 EXCEPT !.fstring_state.state = in_fstring_expr_modifier], "op")
       ELSE mk(optional(Ok(s1), "="), "op")

\* the operator branches of __next__, from + to :
operator(s, current_char) ==
    LET s1 == advance(s)
    IN IF current_char \in {"+", "&", "|", ",", "^", "@", "%", "=", "!", "~"}
       THEN mk(optional(Ok(s1), "="), "op")
       ELSE IF current_char = "<"
       THEN IF ~is_in_bounds(s1) THEN Raise(s1, "AssertionError")
            ELSE IF peek(s1) = ">" THEN make_token(advance(s1), "op")
            ELSE mk(optional(optional(Ok(s1), "<"), "="), "op")
       ELSE IF current_char = ">"
       THEN mk(optional(optional(Ok(s1), ">"), "="), "op")
       ELSE IF current_char = "/"
       THEN mk(optional(optional(Ok(s1), "/"), "="), "op")
       ELSE IF current_char = "*"
       THEN mk(optional(optional(Ok(s1), "*"), "="), "op")
       ELSE IF current_char = "-"
       THEN IF ~is_in_bounds(s1) THEN Raise(s1, "AssertionError")
            ELSE IF peek(s1) = ">" THEN make_token(advance(s1), "op")
            ELSE mk(optional(Ok(s1), "="), "op")
       ELSE IF current_char \in {",", ";"} THEN make_token(s1, "op")
       ELSE IF current_char = BQ THEN make_token(s1, "op")
       ELSE IF current_char = "(" THEN open_bracket(s, "lparen")
       ELSE IF current_char = ")" THEN close_bracket(s, "rparen")
       ELSE IF current_char = "[" THEN open_bracket(s, "lbracket")
       ELSE IF current_char = "]" THEN close_bracket(s, "rbracket")
       ELSE IF current_char = "{" THEN open_bracket(s, "lbrace")
       ELSE IF current_char = "}" THEN rbrace(s)
       ELSE colon(s)

OperatorStart ==
    {"+", "&", "|", ",", "^", "@", "%", "=", "!", "~", "<", ">", "/", "*", "-",
     ";", BQ, "(", ")", "[", "]", "{", "}", ":"}

number(s) ==
    LET two == Slice(s.current_index, s.current_index + 2)
    IN IF s.current_index + 2 <= Len(source) /\ two \in {<<"0", "b">>, <<"0", "B">>}
       THEN binary(s)
       ELSE IF s.current_index + 2 <= Len(source)
               /\ two \in {<<"0", "o">>, <<"0", "O">>}
       THEN octal(s)
       ELSE IF s.current_index + 2 <= Len(source)
               /\ two \in {<<"0", "x">>, <<"0", "X">>}
       THEN hexadecimal(s)
       ELSE decimal(s)

StringPrefixes1 == {<<"b">>, <<"r">>, <<"f">>, <<"u">>}

StringPrefixes2 == {<<"b", "r">>, <<"r", "b">>, <<"f", "r">>, <<"r", "f">>}

is_string_start(s) ==
    \/ (/\ s.current_index + 1 <= Len(source)
        /\ match(s, {<<DQ>>, <<SQ>>}, FALSE))
    \/ (/\ s.current_index + 2 <= Len(source)
        /\ match(s, {p \o <<q>> : p \in StringPrefixes1, q \in {DQ, SQ}}, TRUE))
    \/ (/\ s.current_index + 3 <= Len(source)
        /\ match(s, {p \o <<q>> : p \in StringPrefixes2, q \in {DQ, SQ}}, TRUE))

\* the dispatch of __next__ handling indentation inside brackets too
scan_indenting_in_brackets(s) ==
    LET current_char == peek(s)
        nl == is_newline(s)
    IN IF current_char = "#" THEN make_token(comment(s), "comment")
       ELSE IF s.dedent_counter > 0
       THEN dedent(s)
       ELSE IF nl.is THEN newline(nl.self)
       ELSE IF current_char = BSL THEN backslash(s)
       ELSE IF current_char = CR THEN carriage_return(s)
       ELSE
       LET try == IF /\ s.byte_offset = 0
                     /\ s.fstring_state.state = not_fstring
                  THEN indent(s)
                  ELSE Raise(s, "NotAnIndent")
           s1 == try.self
       IN IF try.exc # "NotAnIndent" THEN try
          ELSE IF current_char \in {SP, CR, TAB, VT, FF}
          THEN make_token(skip_whitespace(s1), "whitespace")
          ELSE IF current_char \in OperatorStart THEN operator(s1, current_char)
          ELSE IF current_char \in Digits \cup {"."} THEN number(s1)
          ELSE IF is_string_start(s1) THEN string(s1)
          ELSE name(s1)

\* __next__ from current_char = self.source[self.current_index] on
scan(s) ==
    LET current_char == peek(s)
        nl == is_newline(s)
    IN IF current_char = "#" THEN make_token(comment(s), "comment")
       ELSE IF s.dedent_counter > 0
       THEN dedent(s)
       ELSE IF nl.is THEN newline(nl.self)
       ELSE IF current_char = BSL THEN backslash(s)
       ELSE IF current_char = CR THEN carriage_return(s)
       ELSE
       LET try == IF /\ s.byte_offset = 0
                     /\ s.bracket_level = 0
                     /\ s.fstring_state.state = not_fstring
                  THEN indent(s)
                  ELSE Raise(s, "NotAnIndent")
           s1 == try.self
       IN IF try.exc # "NotAnIndent" THEN try
          ELSE IF current_char \in {SP, CR, TAB, VT, FF}
          THEN make_token(skip_whitespace(s1), "whitespace")
          ELSE IF current_char \in OperatorStart THEN operator(s1, current_char)
          ELSE IF current_char \in Digits \cup {"."} THEN number(s1)
          ELSE IF is_string_start(s1) THEN string(s1)
          ELSE name(s1)

\* __next__ without TokenType.dedent in the set of the end-of-source check
next_without_dedent_check(s) ==
    IF s.prev_token.type = "endmarker" THEN Raise(s, "StopIteration")
    ELSE IF s.current_index = Len(source)
    THEN IF s.prev_token = NoToken THEN endmarker(s)
         ELSE IF s.prev_token.type \in {"newline", "nl"} THEN endmarker(s)
         ELSE newline(s)
    ELSE IF s.current_index > Len(source) THEN endmarker(s)
    ELSE IF /\ s.fstring_state.state # not_fstring
            /\ s.fstring_state.state # in_fstring_expr
    THEN fstring(s)
    ELSE scan(s)

__next__(s) ==
    IF s.prev_token.type = "endmarker" THEN Raise(s, "StopIteration")
    ELSE IF s.current_index = Len(source)
    THEN IF s.prev_token = NoToken THEN endmarker(s)
         ELSE IF s.prev_token.type \in {"newline", "nl", "dedent"} THEN endmarker(s)
         ELSE newline(s)
    ELSE IF s.current_index > Len(source) THEN endmarker(s)
    ELSE IF /\ s.fstring_state.state # not_fstring
            /\ s.fstring_state.state # in_fstring_expr
    THEN fstring(s)
    ELSE scan(s)

(***************************************************************************)
(* The sources the iterator is run on                                      *)
(***************************************************************************)
\* every string of up to MaxLen characters over Alphabet
MaxLen == 3

\* every f-string opening followed by up to MaxFStringLen characters
MaxFStringLen == 4

\* every file of up to MaxLines lines, each an indentation and a body
MaxLines == 3

Alphabet ==
    {LF, CR, SP, BSL, DQ, "#", "a", "f", "0", "b", "+", "(", ")", "{", "}", ":"}

FStringAlphabet == {"{", "}", ":", "a", DQ, LF}

Indentations == {<<>>, <<SP>>, <<SP, SP>>}

Bodies == {<<>>, <<"a">>, <<"(">>, <<"a", BSL>>}

Lines == {i \o b \o <<LF>> : i \in Indentations, b \in Bodies}

StringsUpTo(S, n) == UNION {[1..k -> S] : k \in 0..n}

FStrings == {<<"f", DQ>> \o body : body \in StringsUpTo(FStringAlphabet, MaxFStringLen)}

\* files of up to n lines; the last line may lack its terminator
RECURSIVE Files(_)
Files(n) ==
    IF n = 0 THEN {<<>>}
    ELSE LET shorter == Files(n - 1)
         IN shorter \cup {l \o f : l \in Lines, f \in shorter}
                    \cup {i \o <<"a">> : i \in Indentations}

\* the sources of tests/pytokens_test.py
TestSources ==
    {<<"{", CR, "}">>,
     <<LF, "#", CR, "0">>,
     <<LF, CR, "0">>,
     <<"r", "f", DQ, BSL, "N", "{", "4", "2", "}", DQ>>,
     <<"t", DQ, "f", "o", "o", SP, "{", "f", SQ, "b", "a", "r", SQ, "}",
       SP, "b", "a", "z", DQ>>,
     <<"d", "e", "f", SP, "f", "o", "o", "(", ")", ":", LF,
       SP, SP, SP, SP, "7", ".", "e", "1", LF>>,
     <<"i", "f", SP, "T", "r", "u", "e", ":", LF,
       SP, SP, SP, SP, "i", "f", SP, BSL, LF, "T", "r", "u", "e", ":", LF,
       SP, SP, SP, SP, SP, SP, SP, SP, "p", "a", "s", "s", LF,
       SP, SP, SP, SP, "p", "a", "s", "s", LF, "p", "a", "s", "s">>,
     <<"i", "f", SP, "T", "r", "u", "e", ":", LF,
       SP, SP, SP, SP, "i", "f", SP, BSL, LF, "T", "r", "u", "e", ":", LF,
       SP, SP, SP, SP, SP, SP, SP, SP, "p", "a", "s", "s", LF,
       SP, SP, SP, SP, "p", "a", "s", "s">>,
     <<"i", "f", SP, "T", "r", "u", "e", ":", LF,
       SP, SP, SP, SP, "i", "f", SP, BSL, LF, "T", "r", "u", "e", ":", LF,
       SP, SP, SP, SP, SP, SP, SP, SP, "p", "a", "s", "s", LF,
       "p", "a", "s", "s">>,
     <<"i", "f", SP, "T", "r", "u", "e", ":", LF,
       SP, SP, SP, SP, "i", "f", SP, BSL, LF, "T", "r", "u", "e", ":", LF,
       SP, SP, SP, SP, SP, SP, SP, SP, "p", "a", "s", "s", LF>>}

\* further sources: characters outside Alphabet, longer f-strings
ExampleSources ==
    {<<"0", "b", "1">>,
     <<"i", "f", SP, "T", "r", "u", "e", ":", LF,
       SP, SP, SP, SP, "i", "f", SP, BSL, LF, "T", "r", "u", "e", ":">>,
     <<"f", DQ, "{", "a", ":", "{", "a", "}", "}", DQ>>,
     <<"(", "f", DQ, "{", "(", "a", LF, ")", "}", DQ, LF, ")", LF>>,
     <<TAB, "a", LF, SP, "a", LF>>,
     <<FF, "a", LF>>,
     <<"a", CR>>,
     <<"a", SP, "<", "=", SP, "$">>,
     <<"(", "a", LF, "f", DQ, "{", "a">>,
     <<TAB, "a", LF, SP, TAB, "a">>,
     <<SP, "a", LF, SP, SP, SP, "a", LF, SP, SP, "a">>,
     <<SP, "a", LF, FF, "a">>,
     <<"f", DQ, "{", "f", SQ, "a", SQ, "}", DQ>>,
     <<"f", DQ, DQ, DQ, "{", "x", ":", "{", "y", "}", "}", DQ, DQ, DQ>>,
     <<"f", DQ, "{", "(", "a", ":", "=", "1", ")", "}", DQ>>,
     <<"a", ":", "=", "1">>,
     <<"f", DQ, "{", "(", "}", ")">>,
     <<SP, "a", LF, SP, SP, "#", LF>>,
     <<DQ, BSL, DQ, BSL, LF, DQ>>,
     <<"f", DQ, "{", "a", ":", "{", "f", SQ, "{", "b", "}", SQ, "}", "}", DQ>>,
     <<"f", DQ, DQ, DQ, "a", LF, "b", DQ, DQ, DQ>>,
     <<"f", DQ, DQ, DQ, "{", "a", ":", "b", LF, "c", "}", DQ, DQ, DQ>>,
     <<DQ, DQ, DQ, BSL, LF, BSL, DQ, LF, DQ, DQ, DQ>>,
     <<"7", ".", "e", "1">>,
     <<"1", "e", "+", "1", "j">>,
     <<"1", "E", "-", "1", "J", SP>>,
     <<"0", "b", "1", "e", "-", "1", SP>>,
     <<"0", "O", "7", "E", "7", LF>>,
     <<"0", "X", "f", "e", "-", "A", SP>>,
     <<"a", "&", "=", "|", "^", "@", "%", "!", "=", "~", BQ, "[", "]", ";", LF>>,
     <<"a", SP, BSL, SP, LF, SP, "a", LF>>,
     <<SP, BSL, CR, LF, SP, "a", LF>>,
     <<"a", BSL, LF, BSL, LF, "a">>,
     <<"(", ";", ":", ")", "[", ":", "=", "]", "{", "}", LF>>}

\* operators: every string of up to MaxLen characters over OperatorAlphabet
OperatorAlphabet == {"<", ">", "=", "-", "/", "*", ",", ";", "a"}

\* number literals: a first digit or dot, or a 0b, 0o or 0x prefix, followed
\* by up to MaxLen characters over NumberAlphabet
NumberAlphabet == {"1", "8", "_", "e", "-", ".", "j", SP}

NumberPrefixes ==
    {<<"1">>, <<".">>, <<"0", "b">>, <<"0", "B">>, <<"0", "o">>, <<"0", "x">>}

Numbers ==
    {p \o tail : p \in NumberPrefixes, tail \in StringsUpTo(NumberAlphabet, MaxLen)}

\* plain strings: a single or a triple quote followed by up to MaxFStringLen
\* characters over StringAlphabet
StringAlphabet == {DQ, BSL, LF, "a"}

PlainStrings ==
    {q \o body : q \in {<<DQ>>, <<DQ, DQ, DQ>>},
                 body \in StringsUpTo(StringAlphabet, MaxFStringLen)}

Sources ==
    StringsUpTo(Alphabet, MaxLen)
        \cup StringsUpTo(OperatorAlphabet, MaxLen)
        \cup Numbers
        \cup PlainStrings
        \cup FStrings
        \cup Files(MaxLines)
        \cup TestSources
        \cup ExampleSources

(***************************************************************************)
(* The state machine                                                       *)
(***************************************************************************)
\* TokenIterator(source): the dataclass defaults
TokenIterator ==
    [current_index |-> 0,
     prev_index |-> 0,
     line_number |-> 1,
     prev_line_number |-> 1,
     byte_offset |-> 0,
     prev_byte_offset |-> 0,
     all_whitespace_on_this_line |-> TRUE,
     bracket_level |-> 0,
     bracket_level_stack |-> <<>>,
     prev_token |-> NoToken,
     indent_stack |-> <<>>,
     dedent_counter |-> 0,
     fstring_state |-> [state |-> not_fstring, stack |-> <<>>],
     fstring_quote_stack |-> <<>>,
     fstring_quote |-> <<>>]

\* tokenize(source)
Init ==
    /\ source \in Sources
    /\ self = TokenIterator
    /\ out = <<>>
    /\ result = "none"

\* next(iterator): a token is returned and appended to `out`, or the call
\* raises; a failure ends the run (the iterator is not pulled again after it)
Pull ==
    /\ result \notin Failures
    /\ LET r == __next__(self)
       IN /\ self' = r.self
          /\ result' = IF r.exc = "none" THEN "token" ELSE r.exc
          /\ out' = IF r.exc = "none" THEN Append(out, r.ret) ELSE out
    /\ UNCHANGED source

Next == Pull

Spec == Init /\ [][Next]_vars

(***************************************************************************)
(* Properties                                                              *)
(***************************************************************************)
\* the run is over and nothing was raised: every next() up to and including
\* the one answered by StopIteration succeeded
Tokenized == result = "StopIteration"

Count(seq, types) == Cardinality({i \in 1..Len(seq) : seq[i].type \in types})

\* a token that lies at or after the end of the source
AtEndOfSource(tok) == tok.start_index >= Len(source)

\* C1: the stream is finite (at most 3 * len + 2 tokens); once ENDMARKER is
\* returned it stays the last token, so there is exactly one and every later
\* next() returns no token and raises StopIteration only; ENDMARKER is returned
\* with indent_stack empty; StopIteration is raised only after ENDMARKER; and the
\* tokens at the end of the source are an optional synthesized newline, then
\* DEDENTs, then ENDMARKER.
C1_EndsWithOneEndmarker ==
    /\ Len(out) <= 3 * Len(source) + 2
    /\ \A i \in 1..Len(out) :
          out[i].type = "endmarker" =>
              /\ i = Len(out)
              /\ result \in {"token", "StopIteration"}
              /\ self.indent_stack = <<>>
    /\ Tokenized => (Len(out) > 0 /\ Last(out).type = "endmarker")
    /\ \A i \in 1..Len(out) :
          AtEndOfSource(out[i]) =>
              /\ out[i].type \in {"newline", "nl", "dedent", "endmarker"}
              /\ (i > 1 /\ AtEndOfSource(out[i - 1])) => out[i].type \in {"dedent", "endmarker"}

\* C1 witness: a source tokenized to the end, with DEDENTs at the end of the
\* source before ENDMARKER and a next() call answered by StopIteration
C1_Witness ==
    /\ Tokenized
    /\ Len(out) >= 3
    /\ out[Len(out) - 1].type = "dedent"
    /\ out[Len(out) - 2].type = "dedent"
    /\ AtEndOfSource(out[Len(out) - 2])

\* Token.to_byte_slice(source)
to_byte_slice(token) ==
    IF /\ (token.type = "newline" \/ token.type = "nl")
       /\ token.start_index = Len(source)
       /\ token.end_index = Len(source) + 1
    THEN <<>>
    ELSE IF /\ token.type = "dedent"
            /\ token.start_index = Len(source) + 1
            /\ token.end_index = Len(source) + 1
    THEN <<>>
    ELSE IF token.type = "endmarker" THEN <<>>
    ELSE Slice(token.start_index, token.end_index)

RECURSIVE Concatenation(_)
Concatenation(tokens) ==
    IF tokens = <<>> THEN <<>>
    ELSE Concatenation(Front(tokens)) \o to_byte_slice(Last(tokens))

\* C2: round trip.  When the source tokenized without raising, the first token
\* starts at index 0, every token starts where the one before it ended, and the
\* concatenation of to_byte_slice over the tokens is the source.
C2_RoundTrip ==
    Tokenized =>
        /\ out[1].start_index = 0
        /\ \A i \in 2..Len(out) : out[i].start_index = out[i - 1].end_index
        /\ Concatenation(out) = source

\* C2 witness: a tokenized source of several tokens, one of them longer than a
\* character, that ends with a synthesized newline
C2_Witness ==
    /\ Tokenized
    /\ Len(source) >= 3
    /\ \E i \in 1..Len(out) : out[i].end_index - out[i].start_index >= 2
    /\ \E i \in 1..Len(out) :
          /\ out[i].type = "newline"
          /\ out[i].start_index = Len(source)

\* C3: in every prefix of the stream there are at most as many DEDENTs as
\* INDENTs, and in the whole stream of a source that tokenized without raising
\* there are as many.
C3_IndentsMatchDedents ==
    /\ Count(out, {"dedent"}) <= Count(out, {"indent"})
    /\ Tokenized => Count(out, {"dedent"}) = Count(out, {"indent"})

\* C3 witness: a tokenized source with two INDENTs, one DEDENT of which comes
\* before the end of the source
C3_Witness ==
    /\ Tokenized
    /\ Count(out, {"indent"}) >= 2
    /\ \E i \in 1..Len(out) : out[i].type = "dedent" /\ ~AtEndOfSource(out[i])

\* a next() call that gets past the StopIteration check
Called == result \notin Failures /\ self.prev_token.type # "endmarker"

\* the call returned the token tok
Returned(tok) == out' = Append(out, tok) /\ result' = "token"

\* the call dispatches on the character at the cursor (it is not at the end of
\* the source and not inside the template or the format spec of an f-string)
Dispatching ==
    /\ Called
    /\ self.current_index < Len(source)
    /\ self.fstring_state.state \in {not_fstring, in_fstring_expr}

\* the cursor is at LF or at CR LF
AtLineBreak ==
    \/ peek(self) = LF
    \/ (/\ peek(self) = CR
        /\ self.current_index + 1 < Len(source)
        /\ At(self.current_index + 1) = LF)

LineBreakWidth == IF peek(self) = LF THEN 1 ELSE 2

\* C4: a call made with bracket_level > 0 or in state in_fstring_expr never
\* returns NEWLINE; the line terminators it returns, the one synthesized at the
\* end of the source included, are NL.
C4_NoNewlineInBrackets ==
    [][(/\ Called
        /\ (self.bracket_level > 0 \/ self.fstring_state.state = in_fstring_expr)
        /\ Len(out') > Len(out))
       => Last(out').type # "newline"]_vars

\* C4 witness: NL was returned for a line break inside brackets, and NL was
\* synthesized at the end of the source inside an f-string expression
C4_Witness ==
    /\ Len(out) >= 2
    /\ Last(out).type = "nl"
    /\ Last(out).start_index = Len(source)
    /\ out[Len(out) - 1].type = "identifier"
    /\ self.fstring_state.state = in_fstring_expr
    /\ self.bracket_level_stack = <<1>>
    /\ \E i \in 2..Len(out) :
          /\ out[i].type = "nl"
          /\ out[i].start_index < Len(source)
          /\ out[i - 1].type = "identifier"

\* C5: a call dispatching on LF or CR LF returns one token covering the one or
\* two characters; it is NL when bracket_level > 0, or the state is
\* in_fstring_expr, or all_whitespace_on_this_line, and NEWLINE otherwise; after
\* it line_number is one more, byte_offset is 0 and all_whitespace_on_this_line
\* is true.
C5_NewlineClassification ==
    [][(Dispatching /\ AtLineBreak)
       => /\ Returned(Last(out'))
          /\ Last(out').start_index = self.current_index
          /\ Last(out').end_index = self.current_index + LineBreakWidth
          /\ Last(out').type =
                 IF \/ self.bracket_level > 0
                    \/ self.fstring_state.state = in_fstring_expr
                    \/ self.all_whitespace_on_this_line
                 THEN "nl" ELSE "newline"
          /\ self'.line_number = self.line_number + 1
          /\ self'.byte_offset = 0
          /\ self'.all_whitespace_on_this_line]_vars

\* C5 witness: NEWLINE was returned for a CR LF after code on line 1
C5_Witness ==
    /\ self.prev_token.type = "newline"
    /\ self.prev_token.end_index = self.prev_token.start_index + 2
    /\ self.prev_token.end_index <= Len(source)
    /\ self.prev_token.start_col > 0
    /\ self.line_number = 2
    /\ self.byte_offset = 0
    /\ self.all_whitespace_on_this_line

\* C6: at the end of the source.  The only token of the empty source is
\* ENDMARKER[0,0].  With the cursor at len(source) after NEWLINE, NL or DEDENT,
\* and with the cursor past len(source), a call returns a zero-width token at
\* the cursor, column 0, on the line after the last line: DEDENT, popping one
\* level, while indent_stack is not empty, then ENDMARKER.  With the cursor at
\* len(source) after any other token it returns a newline token spanning
\* [len, len + 1), after which the cursor is len + 1 on the next line, column 0.
C6_EndOfSource ==
    [][(Called /\ self.current_index >= Len(source))
       => LET tok == Last(out')
              prev == self.prev_token
          IN /\ Returned(tok)
             /\ IF /\ self.current_index = Len(source)
                   /\ prev # NoToken
                   /\ prev.type \notin {"newline", "nl", "dedent"}
                THEN /\ tok.type \in {"newline", "nl"}
                     /\ tok.start_index = Len(source)
                     /\ tok.end_index = Len(source) + 1
                     /\ tok.start_line = prev.end_line
                     /\ self'.current_index = Len(source) + 1
                     /\ self'.line_number = prev.end_line + 1
                     /\ self'.byte_offset = 0
                     /\ self'.indent_stack = self.indent_stack
                ELSE /\ tok.start_index = self.current_index
                     /\ tok.end_index = self.current_index
                     /\ tok.start_col = 0
                     /\ tok.end_col = 0
                     /\ tok.start_line = tok.end_line
                     /\ tok.start_line = IF prev = NoToken THEN 1
                                         ELSE IF prev.type = "dedent" THEN prev.end_line
                                         ELSE prev.end_line + 1
                     /\ prev = NoToken => (Len(source) = 0 /\ tok.type = "endmarker")
                     /\ IF self.indent_stack # <<>>
                        THEN /\ tok.type = "dedent"
                             /\ self'.indent_stack = Front(self.indent_stack)
                        ELSE tok.type = "endmarker"]_vars

\* C6 witness: a source that ends in code two levels deep: the synthesized
\* newline at len, then two DEDENTs and ENDMARKER at len + 1
C6_Witness ==
    /\ Len(out) >= 4
    /\ Last(out).type = "endmarker"
    /\ Last(out).start_index = Len(source) + 1
    /\ out[Len(out) - 1].type = "dedent"
    /\ out[Len(out) - 2].type = "dedent"
    /\ out[Len(out) - 3].type = "newline"
    /\ out[Len(out) - 3].start_index = Len(source)

\* C7: a call returns a token, raises StopIteration or raises a typed failure;
\* it never fails with a failed assertion or an index out of range.
C7_OnlyTypedFailures == result \notin UntypedFailures

ClosingBrackets == {")", "]", "}"}

ClosingToken(char) ==
    IF char = ")" THEN "rparen" ELSE IF char = "]" THEN "rbracket" ELSE "rbrace"

\* C8: bracket_level is never negative; a call dispatching on a closing bracket
\* with bracket_level 0 outside an f-string (and with no indentation to handle
\* first) returns the closing token for that character and leaves bracket_level 0.
C8_BracketLevelNotNegative ==
    [][/\ self'.bracket_level >= 0
       /\ \A i \in 1..Len(self'.bracket_level_stack) : self'.bracket_level_stack[i] >= 0
       /\ (/\ Dispatching
           /\ self.fstring_state.state = not_fstring
           /\ peek(self) \in ClosingBrackets
           /\ self.bracket_level = 0
           /\ self.dedent_counter = 0
           /\ (self.byte_offset # 0 \/ self.indent_stack = <<>>))
          => /\ Returned(Last(out'))
             /\ Last(out').type = ClosingToken(peek(self))
             /\ Last(out').start_index = self.current_index
             /\ Last(out').end_index = self.current_index + 1
             /\ self'.bracket_level = 0]_vars

\* C8 witness: a closing brace was returned as the first token of the source
C8_Witness ==
    /\ Len(out) = 3
    /\ out[1].type = "rbrace"
    /\ out[2].type = "rparen"
    /\ out[3].type = "lparen"
    /\ self.bracket_level = 1

\* the previous token is the WHITESPACE of a backslash continuation after code
AfterContinuation ==
    /\ self.prev_token.type = "whitespace"
    /\ self.prev_token.start_index < Len(source)
    /\ At(self.prev_token.start_index) = BSL
    /\ self.prev_token.end_line > self.prev_token.start_line
    /\ ~self.all_whitespace_on_this_line

\* C9: the token returned after a backslash continuation that follows code is
\* an ordinary token: not INDENT, not DEDENT, not a zero-width WHITESPACE, and
\* indent_stack is unchanged, also at column 0 with indent_stack not empty.
C9_NoIndentAfterContinuation ==
    [][(Dispatching /\ AfterContinuation /\ result' = "token")
       => /\ Last(out').type \notin {"indent", "dedent"}
          /\ ~(/\ Last(out').type = "whitespace"
               /\ Last(out').start_index = Last(out').end_index)
          /\ self'.indent_stack = self.indent_stack]_vars

\* a CR that is not followed by LF
BareCR(i) ==
    /\ i < Len(source)
    /\ At(i) = CR
    /\ ~(i + 1 < Len(source) /\ At(i + 1) = LF)

\* C10: a token that starts at a bare CR is a WHITESPACE token of width 1.
C10_BareCRIsWhitespace ==
    \A i \in 1..Len(out) :
        BareCR(out[i].start_index) =>
            /\ out[i].type = "whitespace"
            /\ out[i].end_index = out[i].start_index + 1

C12_CommentRunsToLF ==
    \A i \in 1..Len(out) :
        out[i].type = "comment" =>
            \/ out[i].end_index = Len(source)
            \/ At(out[i].end_index) = LF

\* a string prefix with t or T and its opening quote start at index i
TStringAt(i) ==
    /\ i + 1 < Len(source)
    /\ At(i) \in {"t", "T"}
    /\ At(i + 1) \in {DQ, SQ}

\* C13: a literal with a t prefix at the start of the source is tokenized as a
\* template string: its first token is TSTRING_START, and once it has tokenized
\* its middles and end are TSTRING_MIDDLE and TSTRING_END.
C13_TStringKinds ==
    TStringAt(0) =>
        /\ Len(out) >= 1 => out[1].type = "tstring_start"
        /\ Tokenized => \E i \in 1..Len(out) : out[i].type = "tstring_end"

\* the source starts with a raw f-string whose template starts with
\* backslash, N, left brace
RawNamedEscapeAtStart ==
    /\ Len(source) >= 7
    /\ {lower(At(0)), lower(At(1))} = {"r", "f"}
    /\ At(2) \in {DQ, SQ}
    /\ At(3) = BSL
    /\ At(4) = "N"
    /\ At(5) = "{"
    /\ At(6) # "{"

\* C14: in a raw f-string backslash-N-brace is no named-unicode escape: the
\* FSTRING_MIDDLE ends before the brace, and the brace opens an expression hole.
C14_RawFStringNamedEscape ==
    RawNamedEscapeAtStart =>
        /\ Len(out) >= 2 =>
               /\ out[2].type = "fstring_middle"
               /\ out[2].start_index = 3
               /\ out[2].end_index = 5
        /\ Len(out) >= 3 =>
               /\ out[3].type = "lbrace"
               /\ out[3].start_index = 5

\* C15: no FSTRING_MIDDLE token is empty.
C15_NoEmptyFStringMiddle ==
    \A i \in 1..Len(out) :
        out[i].type = "fstring_middle" => out[i].start_index < out[i].end_index

\* the call reaches the indentation handling of a line that has code on it
HandlesIndentation ==
    /\ Dispatching
    /\ self.fstring_state.state = not_fstring
    /\ self.byte_offset = 0
    /\ self.bracket_level = 0
    /\ self.dedent_counter = 0
    /\ peek(self) \notin {"#", BSL, CR, LF}
    /\ is_in_bounds(skip_whitespace(self))
    /\ peek(skip_whitespace(self)) \notin {"#", BSL, CR, LF}

\* where the leading whitespace of the line ends
IndentEnd == skip_whitespace(self).current_index

\* the new indentation N: the leading whitespace, or nothing when it holds
\* neither a space nor a tab
NewIndent ==
    LET run == Slice(self.current_index, IndentEnd)
    IN IF run # <<>> /\ \A i \in 1..Len(run) : run[i] \notin {SP, TAB}
       THEN <<>> ELSE run

\* the top T of the indent stack, empty at the base level
CurrentIndent ==
    IF self.indent_stack = <<>> THEN <<>> ELSE Last(self.indent_stack)

\* C16: a line whose indentation N is shorter than the stack top and as long as
\* no level of the stack (N not empty) raises DedentDoesNotMatchAnyOuterIndent,
\* also when every level is longer than N.
C16_DedentMustMatchALevel ==
    [][(/\ HandlesIndentation
        /\ Len(NewIndent) < Len(CurrentIndent)
        /\ Len(NewIndent) > 0
        /\ \A i \in 1..Len(self.indent_stack) :
               Len(self.indent_stack[i]) # Len(NewIndent))
       => result' = "DedentDoesNotMatchAnyOuterIndent"]_vars

\* a is a proper prefix of b
IsProperPrefix(a, b) == Len(a) < Len(b) /\ SubSeq(b, 1, Len(a)) = a

\* C17: every level of indent_stack is a proper prefix of the level above it.
C17_IndentStackIsPrefixChain ==
    \A i \in 1..(Len(self.indent_stack) - 1) :
        IsProperPrefix(self.indent_stack[i], self.indent_stack[i + 1])

\* C18: a line whose indentation N is as long as the stack top T: with both
\* empty the call produces no indentation token and tokenizes the character at
\* the cursor; with N different from T it raises
\* InconsistentUseOfTabsAndSpaces; otherwise it returns one WHITESPACE token
\* covering N and leaves indent_stack and dedent_counter alone.
C18_SameLengthIndentation ==
    [][(HandlesIndentation /\ Len(NewIndent) = Len(CurrentIndent))
       => IF NewIndent = <<>>
          THEN /\ result' \notin {"InconsistentUseOfTabsAndSpaces",
                                  "DedentDoesNotMatchAnyOuterIndent"}
               /\ self'.indent_stack = self.indent_stack
               /\ self'.dedent_counter = 0
               /\ result' = "token" =>
                      /\ Returned(Last(out'))
                      /\ Last(out').type \notin {"indent", "dedent"}
                      /\ Last(out').start_index = self.current_index
                      /\ Last(out').end_index > self.current_index
          ELSE IF NewIndent # CurrentIndent
          THEN /\ result' = "InconsistentUseOfTabsAndSpaces"
               /\ out' = out
          ELSE /\ Returned(Last(out'))
               /\ Last(out').type = "whitespace"
               /\ Last(out').start_index = self.current_index
               /\ Last(out').end_index = self.current_index + Len(NewIndent)
               /\ self'.indent_stack = self.indent_stack
               /\ self'.dedent_counter = self.dedent_counter]_vars

\* C18 witness: a second line indented exactly as the first got a WHITESPACE
\* token for its indentation and its code was tokenized after it
C18_Witness ==
    /\ Len(out) = 5
    /\ out[1].type = "indent"
    /\ out[3].type = "newline"
    /\ out[4].type = "whitespace"
    /\ out[4].end_index - out[4].start_index = out[1].end_index
    /\ out[4].start_col = 0
    /\ out[5].type = "identifier"
    /\ self.indent_stack = <<Slice(0, out[1].end_index)>>
    /\ self.dedent_counter = 0

\* the levels of the stack that are longer than the new indentation
Popped == {i \in 1..Len(self.indent_stack) :
              Len(self.indent_stack[i]) > Len(NewIndent)}

\* C19: a line whose indentation is shorter than the stack top, popping k
\* levels, gets one WHITESPACE token covering its leading whitespace
\* (zero-width when there is none) and sets dedent_counter to k; a call made
\* with dedent_counter > 0 follows a WHITESPACE or a DEDENT and returns a
\* zero-width DEDENT at the end of that whitespace, counting down by one; any
\* other kind of token is returned with dedent_counter 0.
C19_DedentsDrainFirst ==
    [][/\ (HandlesIndentation /\ Len(NewIndent) < Len(CurrentIndent)
                              /\ result' = "token")
          => /\ Returned(Last(out'))
             /\ Last(out').type = "whitespace"
             /\ Last(out').start_index = self.current_index
             /\ Last(out').end_index = IndentEnd
             /\ Cardinality(Popped) >= 1
             /\ self'.dedent_counter = Cardinality(Popped)
             /\ self'.indent_stack =
                    SubSeq(self.indent_stack, 1,
                           Len(self.indent_stack) - Cardinality(Popped))
       /\ (Called /\ self.dedent_counter > 0)
          => /\ self.prev_token.type \in {"whitespace", "dedent"}
             /\ Returned(Last(out'))
             /\ Last(out').type = "dedent"
             /\ Last(out').start_index = self.prev_token.end_index
             /\ Last(out').end_index = self.prev_token.end_index
             /\ self'.dedent_counter = self.dedent_counter - 1
             /\ self'.indent_stack = self.indent_stack
       /\ (Called /\ result' = "token"
                  /\ Last(out').type \notin {"whitespace", "dedent"})
          => self.dedent_counter = 0 /\ self'.dedent_counter = 0]_vars

\* C19 witness: a line at column 0 after two nested levels got a zero-width
\* WHITESPACE, then two zero-width DEDENTs at the same place, then its code
C19_Witness ==
    \E i \in 2..(Len(out) - 3) :
        /\ out[i - 1].type = "newline"
        /\ out[i].type = "whitespace"
        /\ out[i].start_index = out[i].end_index
        /\ out[i + 1].type = "dedent"
        /\ out[i + 2].type = "dedent"
        /\ out[i + 1].start_index = out[i].end_index
        /\ out[i + 2].end_index = out[i].end_index
        /\ out[i + 3].type = "identifier"
        /\ out[i + 3].start_index = out[i].end_index
        /\ self.indent_stack = <<>>
        /\ self.dedent_counter = 0

\* the call dispatches on a backslash
AtBackslash ==
    /\ Dispatching
    /\ self.dedent_counter = 0
    /\ peek(self) = BSL

\* the character after the cursor is whitespace or starts a line break
WhitespaceFollows ==
    LET i == self.current_index + 1
    IN /\ i < Len(source)
       /\ \/ is_whitespace(At(i))
          \/ At(i) = LF
          \/ (At(i) = CR /\ i + 1 < Len(source) /\ At(i + 1) = LF)

\* C20 as stated: a backslash not followed by whitespace or a line break
\* raises UnexpectedCharacterAfterBackslash, also as the last character of the
\* source.
C20_BackslashNeedsWhitespace ==
    [][(AtBackslash /\ ~WhitespaceFollows)
       => result' = "UnexpectedCharacterAfterBackslash"]_vars

\* C20 amended: a backslash followed by a character that is neither whitespace
\* nor the start of a line break raises UnexpectedCharacterAfterBackslash; a
\* backslash that is the last character of the source raises UnexpectedEOF;
\* neither call returns a token.
C20_BackslashFailure ==
    [][(AtBackslash /\ ~WhitespaceFollows)
       => /\ result' = IF self.current_index + 1 = Len(source)
                       THEN "UnexpectedEOF"
                       ELSE "UnexpectedCharacterAfterBackslash"
          /\ out' = out]_vars

\* C20 witness: code, then a backslash as the last character of the source,
\* and the call at the backslash raised UnexpectedEOF
C20_Witness ==
    /\ Len(source) >= 2
    /\ At(Len(source) - 1) = BSL
    /\ result = "UnexpectedEOF"
    /\ self.fstring_state.state = not_fstring
    /\ Len(out) >= 1
    /\ Last(out).type = "identifier"
    /\ Last(out).end_index = Len(source) - 1

\* the call scans a string literal that is not an f-string
PlainStringAt ==
    /\ Dispatching
    /\ self.dedent_counter = 0
    /\ (self.byte_offset # 0 \/ self.indent_stack = <<>>)
    /\ is_string_start(self)
    /\ \A i \in 1..Len(string_prefix_and_quotes(self).prefix) :
           string_prefix_and_quotes(self).prefix[i] \notin {"f", "F"}

\* what ends the body of a string with the given quote that starts at i: its
\* closing quote, an unescaped LF in a single-quoted string, or the end of the
\* source
RECURSIVE StringOutcome(_, _)
StringOutcome(i, quote) ==
    IF i >= Len(source) THEN "eof"
    ELSE IF At(i) = LF /\ Len(quote) = 1 THEN "lf"
    ELSE IF At(i) = BSL THEN StringOutcome(i + 2, quote)
    ELSE IF Slice(i, i + Len(quote)) = quote THEN "closed"
    ELSE StringOutcome(i + 1, quote)

\* C21: a single-quoted plain string that reaches an unescaped LF before its
\* closing quote raises UnterminatedString, and so does a triple-quoted plain
\* string that reaches the end of the source; no STRING token is returned.
C21_UnterminatedString ==
    [][PlainStringAt =>
          LET pq == string_prefix_and_quotes(self)
              outcome == StringOutcome(
                  self.current_index + Len(pq.prefix) + Len(pq.quote), pq.quote)
          IN (\/ outcome = "lf"
              \/ (outcome = "eof" /\ Len(pq.quote) = 3))
             => result' = "UnterminatedString" /\ out' = out]_vars

\* C22: a call made at the end of the source while the f-string state is
\* at_fstring_middle or in_fstring_expr_modifier raises UnexpectedEOF.
C22_EOFInsideFString ==
    [][(/\ Called
        /\ self.current_index >= Len(source)
        /\ self.fstring_state.state \in {at_fstring_middle,
                                         in_fstring_expr_modifier})
       => result' = "UnexpectedEOF"]_vars

OpeningBrackets == {"lparen", "lbracket", "lbrace"}

ClosingTokens == {"rparen", "rbracket", "rbrace"}

\* the indices of the opening bracket tokens among the first n tokens that no
\* later closing bracket token among them closes
RECURSIVE Unclosed(_)
Unclosed(n) ==
    IF n = 0 THEN <<>>
    ELSE LET open == Unclosed(n - 1)
         IN IF out[n].type \in OpeningBrackets THEN Append(open, n)
            ELSE IF out[n].type \in ClosingTokens /\ open # <<>> THEN Front(open)
            ELSE open

\* C23: when the stream has ended, if every opening bracket token was closed
\* bracket_level is 0 and bracket_level_stack is empty, and every line
\* terminator after an opening bracket that was never closed is NL.
C23_BracketsAtEndmarker ==
    Tokenized =>
        LET open == Unclosed(Len(out))
        IN /\ open = <<>> =>
                  self.bracket_level = 0 /\ self.bracket_level_stack = <<>>
           /\ \A i \in 1..Len(out) :
                  (/\ out[i].type \in {"newline", "nl"}
                   /\ \E j \in 1..Len(open) : open[j] < i)
                  => out[i].type = "nl"

OperatorKinds ==
    {"semicolon", "lparen", "rparen", "lbracket", "rbracket", "lbrace",
     "rbrace", "colon", "op"}

\* the upper-cased names of the kinds that are neither operators nor identifier
UpperCasedNames ==
    [whitespace |-> <<"W", "H", "I", "T", "E", "S", "P", "A", "C", "E">>,
     indent |-> <<"I", "N", "D", "E", "N", "T">>,
     dedent |-> <<"D", "E", "D", "E", "N", "T">>,
     newline |-> <<"N", "E", "W", "L", "I", "N", "E">>,
     nl |-> <<"N", "L">>,
     comment |-> <<"C", "O", "M", "M", "E", "N", "T">>,
     _op_start |-> <<"_", "O", "P", "_", "S", "T", "A", "R", "T">>,
     _op_end |-> <<"_", "O", "P", "_", "E", "N", "D">>,
     number |-> <<"N", "U", "M", "B", "E", "R">>,
     string |-> <<"S", "T", "R", "I", "N", "G">>,
     fstring_start |-> <<"F", "S", "T", "R", "I", "N", "G", "_", "S", "T", "A", "R", "T">>,
     fstring_middle |-> <<"F", "S", "T", "R", "I", "N", "G", "_", "M", "I", "D", "D", "L", "E">>,
     fstring_end |-> <<"F", "S", "T", "R", "I", "N", "G", "_", "E", "N", "D">>,
     endmarker |-> <<"E", "N", "D", "M", "A", "R", "K", "E", "R">>]

\* C24: is_operator is true exactly for the kinds semicolon to op, the two
\* markers excluded; to_python_token gives NAME for identifier, OP for the
\* operator kinds and the upper-cased name for every other kind; every token
\* returned has one of these kinds.
C24_OperatorRange ==
    /\ \A kind \in DOMAIN TokenType :
           /\ is_operator(TokenType[kind]) <=> kind \in OperatorKinds
           /\ to_python_token(kind) =
                  IF kind = "identifier" THEN <<"N", "A", "M", "E">>
                  ELSE IF kind \in OperatorKinds THEN <<"O", "P">>
                  ELSE UpperCasedNames[kind]
    /\ \A i \in 1..Len(out) : out[i].type \in DOMAIN TokenType

\* C24 witness: the stream holds an operator kind, an identifier and a kind
\* that is neither, with the names to_python_token gives them
C24_Witness ==
    /\ Len(out) >= 4
    /\ out[1].type = "lparen"
    /\ to_python_token(out[1].type) = <<"O", "P">>
    /\ out[2].type = "identifier"
    /\ to_python_token(out[2].type) = <<"N", "A", "M", "E">>
    /\ out[3].type = "nl"
    /\ to_python_token(out[3].type) = <<"N", "L">>
    /\ ~is_operator(TokenType[out[3].type])

\* the call returned the LBRACE that opens an expression hole of an f-string
EntersHole ==
    /\ Called
    /\ self.fstring_state.state \notin {not_fstring, in_fstring_expr}
    /\ result' = "token"
    /\ Last(out').type = "lbrace"

\* the call dispatches on the closing brace of an expression hole
AtHoleEnd ==
    /\ Dispatching
    /\ self.dedent_counter = 0
    /\ peek(self) = "}"
    /\ self.bracket_level = 0
    /\ self.fstring_state.state = in_fstring_expr

\* C25: the LBRACE of an expression hole pushes bracket_level on
\* bracket_level_stack and sets bracket_level to 0; the closing brace met at
\* bracket_level 0 in state in_fstring_expr returns RBRACE, pops the stack and
\* restores bracket_level from it; no other call touches bracket_level_stack,
\* so the level and the length of the stack after a hole are those before it.
C25_HoleSavesBracketLevel ==
    [][/\ EntersHole
          => /\ self'.bracket_level_stack =
                    Append(self.bracket_level_stack, self.bracket_level)
             /\ self'.bracket_level = 0
             /\ self'.fstring_state.state = in_fstring_expr
       /\ AtHoleEnd
          => /\ Returned(Last(out'))
             /\ Last(out').type = "rbrace"
             /\ self.bracket_level_stack # <<>>
             /\ self'.bracket_level = Last(self.bracket_level_stack)
             /\ self'.bracket_level_stack = Front(self.bracket_level_stack)
       /\ (Called /\ ~EntersHole /\ ~AtHoleEnd)
          => self'.bracket_level_stack = self.bracket_level_stack]_vars

\* C25 witness: a hole opened inside a parenthesis, with a parenthesis of its
\* own, was closed and bracket_level is 1 again
C25_Witness ==
    /\ Len(out) >= 4
    /\ out[1].type = "lparen"
    /\ out[2].type = "fstring_start"
    /\ out[3].type = "lbrace"
    /\ out[4].type = "lparen"
    /\ Last(out).type = "rbrace"
    /\ self.fstring_state.state = at_fstring_middle
    /\ self.bracket_level = 1
    /\ self.bracket_level_stack = <<>>

\* the f-strings that are open: the entries of the state stack pushed by
\* FSTRING_START
OpenFStrings(s) ==
    {i \in 1..Len(s.fstring_state.stack) :
        s.fstring_state.stack[i] \in {not_fstring, in_fstring_expr}}

\* C26: FSTRING_START is returned from state not_fstring or in_fstring_expr,
\* pushes that state and the active quote, makes the opening quote (1 or 3
\* characters) the active one and moves to at_fstring_middle. FSTRING_END
\* covers exactly the active quote, finds the state pushed by an FSTRING_START
\* on top of the state stack, and pops it and the quote. Between the two the
\* quotes are untouched and the state stack changes by format-spec entries
\* only, and the stacks are as deep as there are f-strings open, so after
\* FSTRING_END all four are as before the matching FSTRING_START.
C26_FStringStartEndRestore ==
    [][Called =>
        /\ (result' = "token" /\ Last(out').type = "fstring_start")
           => /\ self.fstring_state.state \in {not_fstring, in_fstring_expr}
              /\ self'.fstring_state.state = at_fstring_middle
              /\ self'.fstring_state.stack =
                     Append(self.fstring_state.stack, self.fstring_state.state)
              /\ Len(self'.fstring_quote) \in {1, 3}
              /\ self'.fstring_quote =
                     Slice(Last(out').end_index - Len(self'.fstring_quote),
                           Last(out').end_index)
              /\ self'.fstring_quote_stack =
                     IF self.fstring_quote = <<>> THEN self.fstring_quote_stack
                     ELSE Append(self.fstring_quote_stack, self.fstring_quote)
        /\ (result' = "token" /\ Last(out').type = "fstring_end")
           => /\ Len(self.fstring_quote) \in {1, 3}
              /\ Last(out').end_index - Last(out').start_index
                     = Len(self.fstring_quote)
              /\ Slice(Last(out').start_index, Last(out').end_index)
                     = self.fstring_quote
              /\ Last(self.fstring_state.stack) \in {not_fstring, in_fstring_expr}
              /\ self'.fstring_state.state = Last(self.fstring_state.stack)
              /\ self'.fstring_state.stack = Front(self.fstring_state.stack)
              /\ IF self.fstring_quote_stack = <<>>
                 THEN self'.fstring_quote = <<>> /\ self'.fstring_quote_stack = <<>>
                 ELSE /\ self'.fstring_quote = Last(self.fstring_quote_stack)
                      /\ self'.fstring_quote_stack = Front(self.fstring_quote_stack)
        /\ ~(result' = "token"
                /\ Last(out').type \in {"fstring_start", "fstring_end"})
           => /\ self'.fstring_quote = self.fstring_quote
              /\ self'.fstring_quote_stack = self.fstring_quote_stack
              /\ \/ self'.fstring_state.stack = self.fstring_state.stack
                 \/ self'.fstring_state.stack =
                        Append(self.fstring_state.stack, in_fstring_expr_modifier)
                 \/ self.fstring_state.stack =
                        Append(self'.fstring_state.stack, in_fstring_expr_modifier)
        /\ Cardinality(OpenFStrings(self')) =
               Count(out', {"fstring_start"}) - Count(out', {"fstring_end"})
        /\ Len(self'.fstring_quote_stack)
               + (IF self'.fstring_quote = <<>> THEN 0 ELSE 1)
               = Cardinality(OpenFStrings(self'))]_vars

\* C27: a call made in state in_fstring_expr_modifier with a left brace at
\* the cursor opens a nested hole, for any quote: it pushes the modifier state,
\* returns LBRACE and moves to in_fstring_expr; the closing brace of a hole
\* opened from a format spec returns to in_fstring_expr_modifier.
C27_NestedHoleInModifier ==
    [][/\ (/\ Called
           /\ self.current_index < Len(source)
           /\ self.fstring_state.state = in_fstring_expr_modifier
           /\ peek(self) = "{")
          => /\ Returned(Last(out'))
             /\ Last(out').type = "lbrace"
             /\ self'.fstring_state.state = in_fstring_expr
             /\ self'.fstring_state.stack =
                    Append(self.fstring_state.stack, in_fstring_expr_modifier)
       /\ (/\ AtHoleEnd
           /\ self.fstring_state.stack # <<>>
           /\ Last(self.fstring_state.stack) = in_fstring_expr_modifier)
          => /\ self'.fstring_state.state = in_fstring_expr_modifier
             /\ self'.fstring_state.stack = Front(self.fstring_state.stack)]_vars

\* the call dispatches on a colon, with no indentation to handle first
AtColon ==
    /\ Dispatching
    /\ self.dedent_counter = 0
    /\ (self.byte_offset # 0 \/ self.indent_stack = <<>>)
    /\ peek(self) = ":"

\* C28: a colon met in state in_fstring_expr at bracket_level 0 is returned as
\* a one-character OP and moves the state to in_fstring_expr_modifier; any
\* other colon is returned as OP, two characters wide when an equals sign
\* follows it and one otherwise, and leaves the f-string state alone.
C28_ColonInHole ==
    [][AtColon =>
          /\ result' = "token"
          /\ Returned(Last(out'))
          /\ Last(out').type = "op"
          /\ Last(out').start_index = self.current_index
          /\ IF /\ self.bracket_level = 0
                /\ self.fstring_state.state = in_fstring_expr
             THEN /\ Last(out').end_index = self.current_index + 1
                  /\ self'.fstring_state.state = in_fstring_expr_modifier
                  /\ self'.fstring_state.stack = self.fstring_state.stack
             ELSE /\ Last(out').end_index =
                         IF /\ self.current_index + 1 < Len(source)
                            /\ At(self.current_index + 1) = "="
                         THEN self.current_index + 2
                         ELSE self.current_index + 1
                  /\ self'.fstring_state = self.fstring_state]_vars

\* the call is made inside brackets or inside an f-string
Nested == self.bracket_level > 0 \/ self.fstring_state.state # not_fstring

\* what a call that handles no indentation leaves alone
NoIndentation ==
    /\ result' = "token" => Last(out').type # "indent"
    /\ self'.indent_stack = self.indent_stack
    /\ self'.dedent_counter <= self.dedent_counter

\* C29 as stated: a call made inside brackets or inside an f-string returns no
\* INDENT, leaves indent_stack unchanged and does not increment
\* dedent_counter; every INDENT starts at column 0.
C29_IndentationOnlyAtTopLevel ==
    [][/\ (Called /\ Nested) => NoIndentation
       /\ (result' = "token" /\ Last(out').type = "indent")
          => Last(out').start_col = 0]_vars

\* C29 amended: the same for every call made before the end of the source;
\* an INDENT is returned only by a call made at column 0 with bracket_level 0
\* in state not_fstring, and it starts at column 0.
C29_IndentationNeedsTopLevel ==
    [][/\ (Called /\ Nested /\ self.current_index < Len(source))
          => NoIndentation
       /\ (result' = "token" /\ Last(out').type = "indent")
          => /\ Last(out').start_col = 0
             /\ self.byte_offset = 0
             /\ self.bracket_level = 0
             /\ self.fstring_state.state = not_fstring]_vars

\* C29 witness: the second line of a parenthesis starts with two spaces: they
\* came out as WHITESPACE, and indent_stack is still empty
C29_Witness ==
    /\ Len(out) = 4
    /\ out[1].type = "lparen"
    /\ out[2].type = "nl"
    /\ out[3].type = "whitespace"
    /\ out[3].start_col = 0
    /\ out[3].end_index = out[3].start_index + 2
    /\ out[4].type = "identifier"
    /\ self.bracket_level = 1
    /\ self.indent_stack = <<>>
    /\ self.dedent_counter = 0

\* the cursor is at the start of a line whose leading whitespace is followed
\* by a comment, a backslash, CR, LF or the end of the source
AtBlankLine ==
    /\ Dispatching
    /\ self.byte_offset = 0
    /\ is_whitespace(peek(self))
    /\ \/ ~is_in_bounds(skip_whitespace(self))
       \/ peek(skip_whitespace(self)) \in {"#", BSL, CR, LF}

\* C30: a line whose leading whitespace is followed by a comment, a backslash,
\* CR, LF or the end of the source gets one WHITESPACE token covering that
\* whitespace, and indent_stack and dedent_counter are left unchanged.
C30_BlankLinesDoNotIndent ==
    [][AtBlankLine =>
          /\ Returned(Last(out'))
          /\ Last(out').type = "whitespace"
          /\ Last(out').start_index = self.current_index
          /\ Last(out').end_index = IndentEnd
          /\ self'.indent_stack = self.indent_stack
          /\ self'.dedent_counter = self.dedent_counter]_vars

\* C30 witness: a comment-only line indented deeper than the block it is in
\* got WHITESPACE for its two spaces and the stack still holds the one space
C30_Witness ==
    /\ Len(out) = 4
    /\ out[1].type = "indent"
    /\ out[3].type = "newline"
    /\ out[4].type = "whitespace"
    /\ out[4].start_col = 0
    /\ out[4].end_index = out[4].start_index + 2
    /\ out[4].end_index < Len(source)
    /\ At(out[4].end_index) = "#"
    /\ self.indent_stack = <<<<SP>>>>
    /\ self.dedent_counter = 0

\* the character c is at index i of the source
Follows(i, c) == i < Len(source) /\ At(i) = c

\* one more character when c is at index i
Optional(i, c) == IF Follows(i, c) THEN 1 ELSE 0

\* the characters that start an operator other than a bracket or a colon
OperatorChars ==
    {"+", "&", "|", "^", "@", "%", "=", "!", "~", "<", ">", "/", "*", "-",
     ",", ";", BQ}

\* the longest match of the operator table at index i
LongestOperator(i) ==
    LET c == At(i)
        doubled == 1 + Optional(i + 1, c)
    IN IF c \in {"+", "&", "|", "^", "@", "%", "=", "!", "~"}
       THEN 1 + Optional(i + 1, "=")
       ELSE IF c \in {"<", "-"} /\ Follows(i + 1, ">") THEN 2
       ELSE IF c = "-" THEN 1 + Optional(i + 1, "=")
       ELSE IF c \in {"<", ">", "/", "*"}
       THEN doubled + Optional(i + doubled, "=")
       ELSE 1

\* the call dispatches on a character of OperatorChars
AtOperator ==
    /\ Dispatching
    /\ self.dedent_counter = 0
    /\ (self.byte_offset # 0 \/ self.indent_stack = <<>>)
    /\ peek(self) \in OperatorChars

\* C31: a call at an operator start character returns one OP token that is
\* the longest match of the table: an optional equals sign after one of
\* + & | ^ @ % = ! ~, the pairs <> and ->, an optional doubling and then an
\* optional equals sign after < > / *, an optional equals sign after -, and
\* always one character for comma, semicolon and backtick; at the last
\* character of the source the token is one character wide.
C31_OperatorLongestMatch ==
    [][AtOperator =>
          /\ result' = "token"
          /\ Returned(Last(out'))
          /\ Last(out').type = "op"
          /\ Last(out').start_index = self.current_index
          /\ Last(out').end_index =
                 self.current_index + LongestOperator(self.current_index)]_vars

\* where the maximal run of characters of S that starts at index i ends
RECURSIVE RunEnd(_, _)
RunEnd(i, S) == IF i < Len(source) /\ At(i) \in S THEN RunEnd(i + 1, S) ELSE i

\* the digits and the underscore of the family of the prefix letter
FamilyDigits(letter) ==
    IF letter \in {"b", "B"} THEN {"0", "1", "_"}
    ELSE IF letter \in {"o", "O"} THEN OctDigits \cup {"_"}
    ELSE HexDigits \cup {"_"}

\* the call scans a literal that starts with 0b, 0o or 0x in either case
AtPrefixedNumber ==
    /\ Dispatching
    /\ self.dedent_counter = 0
    /\ (self.byte_offset # 0 \/ self.indent_stack = <<>>)
    /\ peek(self) = "0"
    /\ self.current_index + 1 < Len(source)
    /\ At(self.current_index + 1) \in {"b", "B", "o", "O", "x", "X"}

\* where the literal at index i ends: the prefix, a run of the family, an
\* optional exponent marker with an optional minus sign, another run
PrefixedNumberEnd(i) ==
    LET S == FamilyDigits(At(i + 1))
        run == RunEnd(i + 2, S)
        marker == IF Follows(run, "e") \/ Follows(run, "E")
                  THEN run + 1 + Optional(run + 1, "-")
                  ELSE run
    IN RunEnd(marker, S)

\* C32: a literal that starts with 0b, 0o or 0x in either case is returned as
\* one NUMBER token covering the prefix, the maximal run of the family's
\* digits and underscores, an optional e or E with an optional minus sign and
\* another such run, also when the literal ends at the end of the source.
C32_PrefixedNumber ==
    [][AtPrefixedNumber =>
          /\ result' = "token"
          /\ Returned(Last(out'))
          /\ Last(out').type = "number"
          /\ Last(out').start_index = self.current_index
          /\ Last(out').end_index = PrefixedNumberEnd(self.current_index)]_vars

\* there is a digit at index i of the source
DigitAt(i) == i >= 0 /\ i < Len(source) /\ At(i) \in Digits

\* the call scans a decimal literal: the cursor is at a digit or at a dot and
\* not at a 0b, 0o or 0x prefix
AtDecimal ==
    /\ Dispatching
    /\ self.dedent_counter = 0
    /\ (self.byte_offset # 0 \/ self.indent_stack = <<>>)
    /\ peek(self) \in Digits \cup {"."}
    /\ ~AtPrefixedNumber

\* the exponent marker at index k of a literal that starts at index i has a
\* digit before it in the literal and a digit, or a sign and a digit, after it
ExponentAllowed(i, k) ==
    /\ \E d \in i..(k - 1) : DigitAt(d)
    /\ \/ DigitAt(k + 1)
       \/ ((Follows(k + 1, "+") \/ Follows(k + 1, "-")) /\ DigitAt(k + 2))

\* the token tok returned for a decimal literal obeys the rules of the
\* exponent marker, of the imaginary suffix and of the lone dot
DecimalRules(tok) ==
    /\ tok.type \in {"number", "op"}
    /\ \A k \in tok.start_index..(tok.end_index - 1) :
          /\ At(k) \in {"e", "E"} => ExponentAllowed(tok.start_index, k)
          /\ At(k) \in {"j", "J"} => \E d \in tok.start_index..(k - 1) : DigitAt(d)
          /\ (At(k) = "." /\ ~DigitAt(k - 1) /\ ~DigitAt(k + 1))
             => /\ tok.type = "op"
                /\ \A d \in tok.start_index..(tok.end_index - 1) : At(d) = "."
    /\ tok.type = "op" => tok.end_index - tok.start_index \in {1, 3}
    /\ (/\ At(tok.start_index) = "."
        /\ Follows(tok.start_index + 1, ".")
        /\ Follows(tok.start_index + 2, "."))
       => (tok.type = "op" /\ tok.end_index = tok.start_index + 3)

\* C33: in the token returned for a decimal literal an exponent marker has a
\* digit before it in the literal and a digit, or a sign and then a digit,
\* after it; an imaginary suffix has a digit before it; a dot with no digit
\* on either side is returned as OP, and three dots in a row as one OP;
\* 7.e1 is one NUMBER four characters wide and .e1 starts with OP for the dot.
C33_DecimalLiteral ==
    [][AtDecimal =>
          /\ result' = "token"
          /\ Returned(Last(out'))
          /\ Last(out').start_index = self.current_index
          /\ DecimalRules(Last(out'))
          /\ source = <<"7", ".", "e", "1">>
             => (Last(out').type = "number" /\ Last(out').end_index = 4)
          /\ (source = <<".", "e", "1">> /\ self.current_index = 0)
             => (Last(out').type = "op" /\ Last(out').end_index = 1)]_vars

\* the number of LF characters in source[i:j]
LineFeeds(i, j) == Cardinality({k \in i..(j - 1) : k < Len(source) /\ At(k) = LF})

\* where the body of a string with the given quote that starts at i is
\* closed, the character after each backslash being skipped
RECURSIVE ClosingQuote(_, _)
ClosingQuote(i, quote) ==
    IF i >= Len(source) THEN Len(source)
    ELSE IF At(i) = BSL THEN ClosingQuote(i + 2, quote)
    ELSE IF Slice(i, i + Len(quote)) = quote THEN i
    ELSE ClosingQuote(i + 1, quote)

\* StringOutcome with a backslash before LF ending a single-quoted string
RECURSIVE StatedStringOutcome(_, _)
StatedStringOutcome(i, quote) ==
    IF i >= Len(source) THEN "eof"
    ELSE IF At(i) = LF /\ Len(quote) = 1 THEN "lf"
    ELSE IF At(i) = BSL /\ Follows(i + 1, LF) /\ Len(quote) = 1 THEN "lf"
    ELSE IF At(i) = BSL THEN StatedStringOutcome(i + 2, quote)
    ELSE IF Slice(i, i + Len(quote)) = quote THEN "closed"
    ELSE StatedStringOutcome(i + 1, quote)

\* the call returned the plain string that starts at the cursor and is closed
\* at index close, and counted its lines
ReturnedString(close, quote) ==
    /\ result' = "token"
    /\ Returned(Last(out'))
    /\ Last(out').type = "string"
    /\ Last(out').start_index = self.current_index
    /\ Last(out').end_index = close + Len(quote)
    /\ Last(out').end_line =
           Last(out').start_line + LineFeeds(self.current_index, close)
    /\ self'.line_number =
           self.line_number + LineFeeds(self.current_index, close)

\* C34 as stated: in a plain string the character after a backslash is
\* skipped, so an escaped quote does not close the string; a backslash
\* before LF is accepted in a triple-quoted string and counted as a line, and
\* raises UnterminatedString in a single-quoted string.
C34_BackslashLFForbidden ==
    [][PlainStringAt =>
          LET pq == string_prefix_and_quotes(self)
              body == self.current_index + Len(pq.prefix) + Len(pq.quote)
              outcome == StatedStringOutcome(body, pq.quote)
          IN /\ outcome = "closed"
                => ReturnedString(ClosingQuote(body, pq.quote), pq.quote)
             /\ outcome = "lf" => result' = "UnterminatedString"]_vars

\* C34 amended: in a plain string the character after a backslash is skipped,
\* so an escaped quote does not close the string and an escaped LF does not
\* end it, in a single-quoted string as in a triple-quoted one: the STRING
\* token runs to the first closing quote that is not escaped and its line
\* span is the number of LF characters in it; only an LF that is not escaped
\* makes a single-quoted string raise UnterminatedString.
C34_BackslashEscapes ==
    [][PlainStringAt =>
          LET pq == string_prefix_and_quotes(self)
              body == self.current_index + Len(pq.prefix) + Len(pq.quote)
              outcome == StringOutcome(body, pq.quote)
          IN /\ outcome = "closed"
                => ReturnedString(ClosingQuote(body, pq.quote), pq.quote)
             /\ outcome = "lf" => result' = "UnterminatedString"]_vars

\* C34 witness: a single-quoted string whose body is an escaped quote and a
\* backslash before LF came out as one STRING token that ends on line 2
C34_Witness ==
    /\ source = <<DQ, BSL, DQ, BSL, LF, DQ>>
    /\ Len(out) = 1
    /\ out[1].type = "string"
    /\ out[1].end_index = 6
    /\ out[1].start_line = 1
    /\ out[1].end_line = 2
    /\ self.line_number = 2

InlineWhitespace == {SP, TAB, VT, FF}

\* there is a line break, LF or CR LF, at index i of the source
LineBreakAt(i) == Follows(i, LF) \/ (Follows(i, CR) /\ Follows(i + 1, LF))

\* where the line break after the backslash at index i ends, the inline
\* whitespace between the two being skipped
ContinuationBreakEnd(i) ==
    LET w == RunEnd(i + 1, InlineWhitespace)
    IN IF Follows(w, LF) THEN w + 1 ELSE w + 2

\* the call is at a backslash that is followed by inline whitespace, if any,
\* and a line break
AtContinuation ==
    /\ AtBackslash
    /\ LineBreakAt(RunEnd(self.current_index + 1, InlineWhitespace))

\* C35: a backslash continuation is returned as one WHITESPACE token that
\* covers the backslash, the inline whitespace and the line break and ends
\* one line further, line_number growing by one; after code on the line the
\* token also covers the whitespace that starts the next line and
\* all_whitespace_on_this_line stays false; on a line of whitespace only the
\* token stops after the line break and the next line starts at column 0
\* with all_whitespace_on_this_line true.
C35_Continuation ==
    [][AtContinuation =>
          LET break == ContinuationBreakEnd(self.current_index)
          IN /\ result' = "token"
             /\ Returned(Last(out'))
             /\ Last(out').type = "whitespace"
             /\ Last(out').start_index = self.current_index
             /\ Last(out').end_line = Last(out').start_line + 1
             /\ self'.line_number = self.line_number + 1
             /\ IF self.all_whitespace_on_this_line
                THEN /\ Last(out').end_index = break
                     /\ self'.all_whitespace_on_this_line
                     /\ self'.byte_offset = 0
                ELSE /\ Last(out').end_index = RunEnd(break, InlineWhitespace)
                     /\ ~self'.all_whitespace_on_this_line]_vars

\* the positions of the token tok are in range and in order
WellPlaced(tok) ==
    /\ tok.start_line >= 1
    /\ tok.start_col >= 0
    /\ tok.start_index <= tok.end_index
    /\ tok.start_line <= tok.end_line

\* the token next starts where the token prev ended, on the next line at
\* column 0 when prev is a line terminator
Adjacent(prev, next) ==
    IF prev.type \in {"newline", "nl"}
    THEN next.start_line = prev.end_line + 1 /\ next.start_col = 0
    ELSE next.start_line = prev.end_line /\ next.start_col = prev.end_col

\* C36: every token returned has start_line >= 1, start_col >= 0,
\* start_index <= end_index and start_line <= end_line; each token starts at
\* the line and column where the token before it ended, or at column 0 of
\* the next line after NEWLINE or NL; and a STRING, FSTRING_MIDDLE or
\* WHITESPACE token spans as many lines as it holds LF characters.
C36_PositionConsistency ==
    /\ \A i \in 1..Len(out) : WellPlaced(out[i])
    /\ \A i \in 2..Len(out) : Adjacent(out[i - 1], out[i])
    /\ \A i \in 1..Len(out) :
          out[i].type \in {"string", "fstring_middle", "whitespace"}
          => out[i].end_line - out[i].start_line =
                 LineFeeds(out[i].start_index, out[i].end_index)

\* C36 witness: a triple-quoted f-string whose FSTRING_MIDDLE holds an LF
\* was tokenized: the middle ends one line after it starts, FSTRING_END
\* starts where it ended, and ENDMARKER starts at column 0 of the line after
\* the NEWLINE
C36_Witness ==
    /\ Tokenized
    /\ Len(out) = 5
    /\ out[2].type = "fstring_middle"
    /\ LineFeeds(out[2].start_index, out[2].end_index) = 1
    /\ out[2].end_line = out[2].start_line + 1
    /\ out[3].type = "fstring_end"
    /\ out[3].start_line = 2
    /\ out[3].start_col = out[2].end_col
    /\ out[4].type = "newline"
    /\ out[5].start_line = out[4].end_line + 1
    /\ out[5].start_col = 0

\* the tokens of seq that are wider than zero characters
NonZeroWidth(seq) ==
    Cardinality({i \in 1..Len(seq) : seq[i].end_index > seq[i].start_index})

\* the steps the f-string state has to take before a character is consumed:
\* the move out of in_fstring_expr_modifier at the end of a format spec
PendingFStringSteps(s) ==
    IF s.fstring_state.state = in_fstring_expr_modifier THEN 1 ELSE 0

\* the call moved the cursor forward or made a bounded measure smaller
Progressed ==
    \/ self'.current_index > self.current_index
    \/ self'.dedent_counter < self.dedent_counter
    \/ Len(self'.indent_stack) < Len(self.indent_stack)
    \/ PendingFStringSteps(self') < PendingFStringSteps(self)

\* C37 as stated: current_index never decreases; every call that returns a
\* token increases current_index or decreases dedent_counter, the length of
\* indent_stack or the pending f-string state steps; at most
\* len(source) + 2 tokens wider than zero are returned.
C37_EveryTokenProgresses ==
    [][/\ self'.current_index >= self.current_index
       /\ result' = "token" => Progressed
       /\ NonZeroWidth(out') <= Len(source) + 2]_vars

\* C37 amended: the same for every token but ENDMARKER, which is zero wide,
\* moves nothing and is the last token: the next call raises StopIteration.
C37_Progress ==
    [][/\ self'.current_index >= self.current_index
       /\ (result' = "token" /\ Last(out').type # "endmarker") => Progressed
       /\ (result' = "token" /\ Last(out').type = "endmarker")
          => /\ Last(out').start_index = Last(out').end_index
             /\ __next__(self').exc = "StopIteration"
       /\ NonZeroWidth(out') <= Len(source) + 2]_vars

\* C37 witness: two DEDENTs and the zero-wide WHITESPACE before them were
\* returned in the middle of the source, the counter is back at 0, and the
\* run went on to the end
C37_Witness ==
    /\ Tokenized
    /\ \E i \in 1..(Len(out) - 3) :
          /\ out[i].type = "whitespace"
          /\ out[i].start_index = out[i].end_index
          /\ out[i + 1].type = "dedent"
          /\ out[i + 2].type = "dedent"
          /\ out[i + 3].type = "identifier"
          /\ out[i + 3].start_index = out[i].start_index
    /\ NonZeroWidth(out) < Len(out)

\* the states in which an expression hole is open
InHole(state) == state \in {in_fstring_expr, in_fstring_expr_modifier}

\* the expression holes that are open: the one the state is in and the ones
\* saved on the state stack
OpenHoles(s) ==
    (IF InHole(s.fstring_state.state) THEN 1 ELSE 0)
        + Cardinality({i \in 1..Len(s.fstring_state.stack) :
                           InHole(s.fstring_state.stack[i])})

\* C38: bracket_level_stack is as long as the number of open f-string
\* expression holes; fstring_quote is None exactly in state not_fstring with
\* an empty state stack; so whenever the state is not not_fstring the state
\* stack and the quote are there to be popped, in a hole bracket_level_stack
\* is not empty, fstring_quote_stack holds the quotes of the open f-strings
\* but the innermost, and Underflow is never raised.
C38_NoUnderflow ==
    /\ Len(self.bracket_level_stack) = OpenHoles(self)
    /\ (self.fstring_quote = <<>>)
       <=> (/\ self.fstring_state.state = not_fstring
            /\ self.fstring_state.stack = <<>>)
    /\ self.fstring_state.state # not_fstring
       => (self.fstring_state.stack # <<>> /\ self.fstring_quote # <<>>)
    /\ InHole(self.fstring_state.state) => self.bracket_level_stack # <<>>
    /\ Len(self.fstring_quote_stack) =
           IF OpenFStrings(self) = {} THEN 0
           ELSE Cardinality(OpenFStrings(self)) - 1
    /\ result # "Underflow"

\* C38 witness: an f-string nested in a hole of a format spec has just been
\* closed: its hole, its saved state and its quote were popped, two holes
\* of the outer f-string are still open and the outer quote is active again
C38_Witness ==
    /\ result = "token"
    /\ Last(out).type = "fstring_end"
    /\ Len(out) >= 2
    /\ out[Len(out) - 1].type = "rbrace"
    /\ self.fstring_state.state = in_fstring_expr
    /\ self.fstring_state.stack = <<not_fstring, in_fstring_expr_modifier>>
    /\ Len(self.bracket_level_stack) = 2
    /\ self.fstring_quote = <<DQ>>
    /\ self.fstring_quote_stack = <<>>

\* the kind of each bracket character
BracketKind ==
    [c \in {"(", ")", "[", "]", "{", "}"} |->
        IF c = "(" THEN "lparen"
        ELSE IF c = ")" THEN "rparen"
        ELSE IF c = "[" THEN "lbracket"
        ELSE IF c = "]" THEN "rbracket"
        ELSE IF c = "{" THEN "lbrace"
        ELSE "rbrace"]

\* the call dispatches on a semicolon, a colon or a bracket
AtPunctuation ==
    /\ Dispatching
    /\ self.dedent_counter = 0
    /\ (self.byte_offset # 0 \/ self.indent_stack = <<>>)
    /\ peek(self) \in {";", ":"} \cup DOMAIN BracketKind

\* C39: no token of kind semicolon or colon is ever returned; the token
\* returned at a semicolon or a colon has kind op (one character, or := for
\* a colon outside a hole) and the token returned at a bracket has the kind
\* of that bracket and is one character wide; a token of a bracket kind
\* always is that bracket.
C39_PunctuationKinds ==
    [][/\ \A i \in 1..Len(out') :
             /\ out'[i].type \notin {"semicolon", "colon"}
             /\ out'[i].type \in {BracketKind[c] : c \in DOMAIN BracketKind}
                => /\ out'[i].end_index = out'[i].start_index + 1
                   /\ At(out'[i].start_index) \in DOMAIN BracketKind
                   /\ out'[i].type = BracketKind[At(out'[i].start_index)]
       /\ (AtPunctuation /\ result' = "token")
          => /\ Last(out').start_index = self.current_index
             /\ IF peek(self) \in {";", ":"}
                THEN /\ Last(out').type = "op"
                     /\ Last(out').end_index - Last(out').start_index =
                            IF peek(self) = ":"
                               /\ Follows(self.current_index + 1, "=")
                               /\ ~(/\ self.bracket_level = 0
                                    /\ self.fstring_state.state = in_fstring_expr)
                            THEN 2 ELSE 1
                ELSE /\ Last(out').type = BracketKind[peek(self)]
                     /\ Last(out').end_index = self.current_index + 1]_vars

\* C39 witness: a line of brackets, a semicolon, a colon and := was
\* tokenized into LPAREN OP OP RPAREN LBRACKET OP RBRACKET LBRACE RBRACE
C39_Witness ==
    /\ Tokenized
    /\ Len(out) = 11
    /\ [i \in 1..9 |-> out[i].type] =
           <<"lparen", "op", "op", "rparen", "lbracket", "op", "rbracket",
             "lbrace", "rbrace">>
    /\ At(out[2].start_index) = ";"
    /\ At(out[3].start_index) = ":"
    /\ out[6].end_index = out[6].start_index + 2

====
